---- MODULE Spec2Model ----
(***************************************************************************)
(* A model of autocast: the timeline assembler (config/run.rs,             *)
(* `instructions`), the instruction interpreter (`Instruction::run`) and   *)
(* the shell session's prompt-aware reads (config/spawn.rs).               *)
(*                                                                         *)
(* Text is a sequence of one-character strings, so that searching and      *)
(* splitting text is modelled by what it does.  Durations and instants     *)
(* are natural numbers of one time unit.                                   *)
(*                                                                         *)
(* Environment: the shell answers every line it receives with the output   *)
(* ShellOutput(line) followed by its prompt PROMPT, which arrive at the     *)
(* reads in arbitrary pieces at arbitrary times.  The session's stream is  *)
(* the pty stream as spawn opens it (spawn.rs:194-196), which nothing sets *)
(* non-blocking: a read returns once at least one byte has arrived.  In    *)
(* specification Spec the shell's command output never contains the prompt *)
(* string (spec.md, section 1, non-goals); arbitrary data, prompt in the   *)
(* middle included, is read under specification SpecRead.                  *)
(*                                                                         *)
(* Further specifications: SpecEvents (Command::events), SpecSession       *)
(* (spawn and quit), SpecKeys (keys_to_events) and SpecKeysFair (the same, *)
(* its steps taken whenever they can be), SpecMain (main and the output    *)
(* file), SpecHeader (Header::serialize), SpecConfig (TryFrom<Script> for  *)
(* asciicast::File) and SpecParse (the deserializers of Command and Key,   *)
(* the durations' parsers and Display).                                    *)
(***************************************************************************)
EXTENDS Integers, Sequences, FiniteSets, TLC

(***************************************************************************)
(* Bounds of the model.                                                    *)
(***************************************************************************)
\* longest script (number of instructions)
MaxScript == 3
\* longest data one read returns, and longest prompt, under SpecRead
MaxData == 4
MaxPrompt == 2
\* longest line of a command, and most lines of a MultiLine, under SpecEvents
MaxLine == 2
MaxLines == 3

(***************************************************************************)
(* Settings the interpreter is called with.                                *)
(***************************************************************************)
\* Settings.type_speed, the default typing speed (100 ms, in time units)
default_type_speed == 100
\* an instruction's own type_speed, when it sets one
OwnTypeSpeed == default_type_speed + 50
\* the durations of the Wait instructions of the scripts
WaitDurations == {300, 700}
\* how long one read of the stream may take
Ticks == {0, 10}
\* Settings.timeout as given to the session: the longest single read, so
\* that one slow read is within the timeout and two are not
timeout == CHOOSE t \in Ticks : \A u \in Ticks : u <= t
\* Settings.prompt: the prompt shown in the recording
DEFAULT_PROMPT == <<"$", " ">>
\* ShellSession.prompt: the string the session waits for
PROMPT == <<"#", ">">>
\* ShellSession::send_line's line ending
LINE_ENDING == <<"\n">>
\* Settings.secondary_prompt: shown before the later lines of a MultiLine
DEFAULT_SECONDARY_PROMPT == <<">", " ">>
\* Shell::line_split of the built-in shells: shown after every line of a
\* MultiLine but the last
line_split == <<" ", "\\">>

(***************************************************************************)
(* asciicast::Event and its constructors.                                  *)
(***************************************************************************)
EventOutput(time, data) == [time |-> time, event_type |-> "o", data |-> data]

EventOutputln(time) == [time |-> time, event_type |-> "o", data |-> <<"\r", "\n">>]

EventMarker(time, data) == [time |-> time, event_type |-> "m", data |-> data]

(***************************************************************************)
(* Text helpers.                                                           *)
(***************************************************************************)
\* all sequences over S of length at most n
SeqsUpTo(S, n) == UNION {[1..k -> S] : k \in 0..n}

\* p occurs in s at offset i (0-based)
OccursAt(s, p, i) ==
    /\ i + Len(p) <= Len(s)
    /\ SubSeq(s, i + 1, i + Len(p)) = p

Contains(s, p) == \E i \in 0..Len(s) : OccursAt(s, p, i)

EndsWith(s, p) == Len(p) <= Len(s) /\ OccursAt(s, p, Len(s) - Len(p))

\* Faulty variant of RSplitOnce: split at the first occurrence (split_once).
SplitOnce(s, p) ==
    IF Contains(s, p)
    THEN LET i == CHOOSE k \in 0..Len(s) :
                    /\ OccursAt(s, p, k)
                    /\ \A j \in 0..Len(s) : OccursAt(s, p, j) => k <= j
         IN  [found |-> TRUE,
              before |-> SubSeq(s, 1, i),
              after |-> SubSeq(s, i + Len(p) + 1, Len(s))]
    ELSE [found |-> FALSE, before |-> s, after |-> <<>>]

\* str::rsplit_once: split at the last occurrence of the delimiter
RSplitOnce(s, p) ==
    IF Contains(s, p)
    THEN LET i == CHOOSE k \in 0..Len(s) :
                    /\ OccursAt(s, p, k)
                    /\ \A j \in 0..Len(s) : OccursAt(s, p, j) => j <= k
         IN  [found |-> TRUE,
              before |-> SubSeq(s, 1, i),
              after |-> SubSeq(s, i + Len(p) + 1, Len(s))]
    ELSE [found |-> FALSE, before |-> s, after |-> <<>>]

RECURSIVE Flatten(_)
Flatten(ss) == IF ss = <<>> THEN <<>> ELSE Head(ss) \o Flatten(Tail(ss))

(***************************************************************************)
(* ShellSession::read, as a function of the data one read of the stream    *)
(* returned, the session's prompt and the time since the last event:       *)
(* event is the Option<Event> as a sequence of at most one event.          *)
(***************************************************************************)
ShellSessionReadNoTime(data, prompt, elapsed) ==
    IF data = <<>>
    THEN [event |-> <<>>, prompt |-> FALSE]
    ELSE LET split == RSplitOnce(data, prompt)
         IN  IF split.found
             THEN IF split.before = <<>>
                  THEN [event |-> <<>>, prompt |-> TRUE]
                  ELSE [event |-> <<EventOutput(0, split.before)>>, prompt |-> TRUE]
             ELSE [event |-> <<EventOutput(0, data)>>, prompt |-> FALSE]

ShellSessionRead(data, prompt, elapsed) ==
    IF data = <<>>
    THEN [event |-> <<>>, prompt |-> FALSE]
    ELSE LET split == RSplitOnce(data, prompt)
         IN  IF split.found
             THEN IF split.before = <<>>
                  THEN [event |-> <<>>, prompt |-> TRUE]
                  ELSE [event |-> <<EventOutput(elapsed, split.before)>>, prompt |-> TRUE]
             ELSE [event |-> <<EventOutput(elapsed, data)>>, prompt |-> FALSE]

(***************************************************************************)
(* Command::events and type_line: the synthetic typed events.              *)
(***************************************************************************)
\* Faulty variant of type_line: no line terminator event.
type_line_unterminated(type_speed, line) ==
    [i \in 1..Len(line) |-> EventOutput(type_speed, <<line[i]>>)]

type_line(type_speed, line) ==
    [i \in 1..Len(line) |-> EventOutput(type_speed, <<line[i]>>)]
        \o <<EventOutputln(type_speed)>>

\* expectrl's ControlCode, named by its letter: AsRef<str> gives the caret
\* notation, AsRef<[u8]> the control byte itself
ControlCodes == {"C", "D"}

ControlAsStr(control) == <<"^", control>>

ControlAsBytes(control) == IF control = "C" THEN <<"ETX">> ELSE <<"EOT">>

\* [String]::join: the lines with the separator between them
RECURSIVE Join(_, _)
Join(lines, sep) ==
    IF lines = <<>> THEN <<>>
    ELSE IF Len(lines) = 1 THEN lines[1]
    ELSE lines[1] \o sep \o Join(Tail(lines), sep)

\* Faulty variant of MultiLineEvents: the line split after the last line too.
MultiLineEventsSplitEveryLine(lines, type_speed, secondary, split) ==
    Flatten([i \in 1..Len(lines) |->
        (IF i # 1 THEN <<EventOutput(type_speed, secondary)>> ELSE <<>>)
            \o type_line(type_speed, lines[i] \o split)])

\* Command::events for MultiLine: lines[i] is line number i - 1
MultiLineEvents(lines, type_speed, secondary, split) ==
    Flatten([i \in 1..Len(lines) |->
        (IF i # 1 THEN <<EventOutput(type_speed, secondary)>> ELSE <<>>)
            \o type_line(type_speed,
                         lines[i] \o (IF i < Len(lines) THEN split ELSE <<>>))])

\* Faulty variant of CommandEvents: a Control is shown as its byte.
CommandEventsControlByte(command, type_speed, secondary, split) ==
    CASE command.variant = "SingleLine" -> type_line(type_speed, command.line)
      [] command.variant = "MultiLine" ->
            MultiLineEvents(command.lines, type_speed, secondary, split)
      [] command.variant = "Control" ->
            type_line(type_speed, ControlAsBytes(command.control))

CommandEvents(command, type_speed, secondary, split) ==
    CASE command.variant = "SingleLine" -> type_line(type_speed, command.line)
      [] command.variant = "MultiLine" ->
            MultiLineEvents(command.lines, type_speed, secondary, split)
      [] command.variant = "Control" ->
            type_line(type_speed, ControlAsStr(command.control))

\* Faulty variant of CommandSendBytes: a MultiLine is sent as it is typed,
\* line by line, the line split after every line but the last.
CommandSendBytesAsTyped(command) ==
    CASE command.variant = "SingleLine" -> command.line \o LINE_ENDING
      [] command.variant = "MultiLine" ->
            Flatten([i \in 1..Len(command.lines) |->
                command.lines[i]
                    \o (IF i < Len(command.lines) THEN line_split ELSE <<>>)
                    \o LINE_ENDING])
      [] command.variant = "Control" -> ControlAsBytes(command.control)

\* Command::send: the bytes written to the session
CommandSendBytes(command) ==
    CASE command.variant = "SingleLine" -> command.line \o LINE_ENDING
      [] command.variant = "MultiLine" -> Join(command.lines, <<" ">>) \o LINE_ENDING
      [] command.variant = "Control" -> ControlAsBytes(command.control)

(***************************************************************************)
(* The `Events` value an instruction yields, and the items its iterator    *)
(* gives (Events::next): none for Wait and None.                           *)
(***************************************************************************)
EventsItems(ev) ==
    IF ev.tag \in {"Wait", "None"} THEN <<>> ELSE ev.events

\* Faulty variant of RunPure: Clear prints the session's prompt string at
\* once, and a Marker takes the typing delay.
RunPureClearAtOnce(instruction, prompt) ==
    CASE instruction.kind = "Wait" ->
            [tag |-> "Wait", wait |-> instruction.duration]
      [] instruction.kind = "Marker" ->
            [tag |-> "Once", events |-> <<EventMarker(default_type_speed, instruction.data)>>]
      [] instruction.kind = "Clear" ->
            [tag |-> "Clear",
             events |-> << EventOutput(default_type_speed, <<"\r", "ESC[H", "ESC[2J", "ESC[3J">>),
                           EventOutput(0, PROMPT) >>]

\* Instruction::run for the instructions that do not touch the session
RunPure(instruction, prompt) ==
    CASE instruction.kind = "Wait" ->
            [tag |-> "Wait", wait |-> instruction.duration]
      [] instruction.kind = "Marker" ->
            [tag |-> "Once", events |-> <<EventMarker(0, instruction.data)>>]
      [] instruction.kind = "Clear" ->
            [tag |-> "Clear",
             events |-> << EventOutput(default_type_speed, <<"\r", "ESC[H", "ESC[2J", "ESC[3J">>),
                           EventOutput(default_type_speed, prompt) >>]

\* Faulty variants of RunCommandDone: one that does not look at `hidden`,
\* one that chains the captured output before the typed events.
RunCommandDoneShown(instruction, prompt, output, elapsed) ==
    [tag |-> "Command",
     events |-> type_line(default_type_speed, instruction.command.line)
                    \o output \o <<EventOutput(elapsed, prompt)>>]

RunCommandDoneOutputFirst(instruction, prompt, output, elapsed) ==
    IF instruction.hidden
    THEN [tag |-> "None"]
    ELSE [tag |-> "Command",
          events |-> output \o type_line(default_type_speed, instruction.command.line)
                        \o <<EventOutput(elapsed, prompt)>>]

\* Instruction::run for a Command, once read_until_prompt returned `output`;
\* elapsed is the time since the session's last event
RunCommandDone(instruction, prompt, output, elapsed) ==
    IF instruction.hidden
    THEN [tag |-> "None"]
    ELSE LET type_speed == IF instruction.type_speed = <<>>
                           THEN default_type_speed
                           ELSE instruction.type_speed[1]
         IN  [tag |-> "Command",
              events |-> CommandEvents(instruction.command, type_speed,
                                       DEFAULT_SECONDARY_PROMPT, line_split)
                            \o output \o <<EventOutput(elapsed, prompt)>>]

\* Instruction::run for an Interactive, once keys_to_events returned `output`
RunInteractiveDone(instruction, prompt, output, elapsed) ==
    LET type_speed == IF instruction.type_speed = <<>>
                      THEN default_type_speed
                      ELSE instruction.type_speed[1]
    IN  [tag |-> "Command",
         events |-> CommandEvents(instruction.command, type_speed,
                                  DEFAULT_SECONDARY_PROMPT, line_split)
                       \o output \o <<EventOutput(elapsed, prompt)>>]

\* the end of Instruction::run for the instructions that use the session
RunDone(instruction, prompt, output, elapsed) ==
    IF instruction.kind = "Interactive"
    THEN RunInteractiveDone(instruction, prompt, output, elapsed)
    ELSE RunCommandDone(instruction, prompt, output, elapsed)

\* whether Instruction::run ends with new_event(prompt): not for a hidden Command
EndsWithPrompt(instruction) ==
    instruction.kind = "Interactive" \/ ~instruction.hidden

(***************************************************************************)
(* The timeline assembler: the closure given to process_results.           *)
(***************************************************************************)
\* Faulty variants of FlatMapStep: one in which a Wait replaces the wait time
\* instead of adding to it, one in which every fragment that is not a Wait
\* clears the wait time, also when it yields no event.
FlatMapStepLastWaitOnly(wt, ev) ==
    LET wt1 == IF ev.tag = "Wait" THEN ev.wait ELSE wt
        items == EventsItems(ev)
    IN  IF items = <<>>
        THEN [wait_time |-> wt1, events |-> <<>>]
        ELSE [wait_time |-> 0,
              events |-> <<[items[1] EXCEPT !.time = @ + wt1]>> \o Tail(items)]

FlatMapStepClearsOnNone(wt, ev) ==
    LET items == EventsItems(ev)
    IN  IF ev.tag = "Wait"
        THEN [wait_time |-> wt + ev.wait, events |-> <<>>]
        ELSE IF items = <<>>
        THEN [wait_time |-> 0, events |-> <<>>]
        ELSE [wait_time |-> 0,
              events |-> <<[items[1] EXCEPT !.time = @ + wt]>> \o Tail(items)]

\* the flat_map closure: one fragment, with the wait time carried so far
FlatMapStep(wt, ev) ==
    LET wt1 == IF ev.tag = "Wait" THEN wt + ev.wait ELSE wt
        items == EventsItems(ev)
    IN  IF items = <<>>
        THEN [wait_time |-> wt1, events |-> <<>>]
        ELSE [wait_time |-> 0,
              events |-> <<[items[1] EXCEPT !.time = @ + wt1]>> \o Tail(items)]

\* Faulty variant of ScanFrom: the running time is never stored, so every
\* time is added to the initial one only.
ScanFromNoCarry(time, es) ==
    [n \in 1..Len(es) |-> [es[n] EXCEPT !.time = @ + time]]

\* the scan: every event's time becomes the running sum
RECURSIVE ScanFrom(_, _)
ScanFrom(time, es) ==
    IF es = <<>> THEN <<>>
    ELSE LET t == Head(es).time + time
         IN  <<[Head(es) EXCEPT !.time = t]>> \o ScanFrom(t, Tail(es))

\* Faulty variant of Scan: no scan, the times stay deltas.
ScanSkipped(es) == es

Scan(es) == ScanFrom(0, es)

\* Faulty variant of AddToLast: the remaining wait time is dropped.
AddToLastDropped(es, wt) == es

\* events.last_mut(): the remaining wait time goes to the last event
AddToLast(es, wt) ==
    IF es = <<>> THEN es
    ELSE [es EXCEPT ![Len(es)] = [@ EXCEPT !.time = @ + wt]]

\* Faulty variant of Chained: the trailing terminator at Duration::ZERO.
ChainedTerminatorAtZero(prompt, es, type_speed) ==
    <<EventOutput(0, prompt)>> \o es \o <<EventOutputln(0)>>

\* the chain before the scan
Chained(prompt, es, type_speed) ==
    <<EventOutput(0, prompt)>> \o es \o <<EventOutputln(type_speed)>>

\* Faulty variant of Assemble: the wait time left over is added twice.
AssembleAddsTwice(prompt, es, type_speed, wt) ==
    AddToLast(AddToLast(Scan(Chained(prompt, es, type_speed)), wt), wt)

\* the closure given to process_results, after the flat_map
Assemble(prompt, es, type_speed, wt) ==
    AddToLast(Scan(Chained(prompt, es, type_speed)), wt)

(***************************************************************************)
(* The scripts and the shell of the model.                                 *)
(***************************************************************************)
Commands == { [variant |-> "SingleLine", line |-> <<"h">>] }

Instructions ==
    {[kind |-> "Wait", duration |-> d] : d \in WaitDurations}
    \cup {[kind |-> "Marker", data |-> <<"x">>], [kind |-> "Clear"]}
    \cup {[kind |-> "Command", command |-> c, hidden |-> h, type_speed |-> <<>>] :
            c \in Commands, h \in BOOLEAN}
    \cup {[kind |-> "Command", command |-> [variant |-> "SingleLine", line |-> <<"h">>],
           hidden |-> FALSE, type_speed |-> <<OwnTypeSpeed>>]}

\* the scripts: at most one hidden and at most one visible Command, anywhere
\* among the other instructions
OneOfEach(s) ==
    \A i, j \in 1..Len(s) :
        /\ s[i].kind = "Command" /\ s[j].kind = "Command"
        /\ s[i].hidden = s[j].hidden
        => i = j

Scripts == {s \in SeqsUpTo(Instructions, MaxScript) : OneOfEach(s)}

\* what the shell prints for a line it received, before its next prompt:
\* the line in upper case and a line break
Upper(c) == IF c = "h" THEN "H" ELSE c

ShellOutput(line) == [i \in 1..Len(line) |-> Upper(line[i])] \o <<"\r\n">>

\* a command line that prints nothing and does not end: no output, no prompt
Silent == <<"s">>

\* what the shell prints once it has received an instruction's command: for
\* a Command its output and the prompt, for an Interactive the output of the
\* program it starts, which then takes the keys
ShellAnswer(instruction) ==
    IF instruction.command.line = Silent THEN <<>>
    ELSE IF instruction.kind = "Interactive" THEN ShellOutput(instruction.command.line)
    ELSE ShellOutput(instruction.command.line) \o PROMPT

(***************************************************************************)
(* State.                                                                  *)
(***************************************************************************)
VARIABLES
    script,       \* the instructions given to `instructions`
    num,          \* index of the instruction being run (1-based)
    state,        \* "run", "read" (in read_until_prompt), "done", "failed"
    wait_time,    \* the assembler's wait_time
    events,       \* the events the flat_map has yielded so far
    fragments,    \* the Events values the instructions have yielded so far
    result,       \* the returned Vec<Event>, <<>> before the return
    sent,         \* every byte written to the session, in order
    stream,       \* the shell's output that no read has returned yet
    since_event,  \* Instant::now() - shell_session.last_event
    since_start,  \* start.elapsed() of the running read_until_prompt
    output,       \* read_until_prompt's events
    prompt,       \* shell_session.prompt, the string the session waits for
    read_call,    \* the last lone call of ShellSession::read: the data its
                  \* read of the stream returned, and what it returned
    key_num,      \* keys_to_events: how many keys the iterator has given
    until_next,   \* keys_to_events: next - Instant::now()
    key_times,    \* history: when each key was sent, counted from the command's send
    out_file,     \* main: the output file on disk
    overwrite,    \* main: cli.overwrite
    quit_command, \* shell_session.quit_command, an Option as a sequence
    platform,     \* the build target: "unix" or "windows"
    exited,       \* whether the shell process has exited
    settings,     \* the script's Settings, <<>> where they play no part
    host,         \* the invoking terminal's size and the process's environment
    header,       \* the asciicast::Header, <<>> before there is one
    emitted,      \* what Header::serialize has emitted, <<>> before it ran
    input,        \* the value given to a deserializer's visitor
    parsed        \* what the visitor returned, <<>> before it ran

vars == <<script, num, state, wait_time, events, fragments, result, sent,
          stream, since_event, since_start, output, prompt, read_call,
          key_num, until_next, key_times, out_file, overwrite, quit_command, platform,
          exited, settings, host, header, emitted, input, parsed>>

session == <<sent, stream, since_event, since_start, output>>

\* the settings, the header and the deserializers' values
config == <<settings, host, header, emitted, input, parsed>>

\* what the interpreter of Command, Wait, Marker and Clear never touches
others == <<key_num, until_next, key_times, out_file, overwrite, quit_command, platform,
            exited, config>>

\* the output file before main has opened it: not there, or an older recording
Absent == [exists |-> FALSE, header |-> FALSE, events |-> <<>>]

OldFile == [exists |-> TRUE, header |-> TRUE, events |-> <<EventMarker(0, <<"o", "l", "d">>)>>]

\* the file as OpenOptions with create and truncate leaves it: there and empty
EmptyFile == [exists |-> TRUE, header |-> FALSE, events |-> <<>>]

\* no Interactive instruction is running, main's file is out of the picture,
\* the shell process runs
NoKeys == key_num = 0 /\ until_next = 0 /\ key_times = <<>>

NoFile == out_file = Absent /\ overwrite = FALSE

Running == quit_command = <<>> /\ platform = "unix" /\ exited = FALSE

\* the settings, the header and the deserializers play no part
Unconfigured ==
    /\ settings = <<>> /\ host = <<>>
    /\ header = <<>> /\ emitted = <<>>
    /\ input = <<>> /\ parsed = <<>>

Init ==
    /\ script \in Scripts
    /\ num = 1
    /\ state = "run"
    /\ wait_time = 0
    /\ events = <<>>
    /\ fragments = <<>>
    /\ result = <<>>
    /\ sent = <<>>
    /\ stream = <<>>
    /\ since_event = 0
    /\ since_start = 0
    /\ output = <<>>
    /\ prompt = PROMPT
    /\ read_call = <<>>
    /\ NoKeys /\ NoFile /\ Running
    /\ Unconfigured

\* the flat_map takes the fragment `ev` of instruction num
Yield(ev) ==
    LET step == FlatMapStep(wait_time, ev)
    IN  /\ wait_time' = step.wait_time
        /\ events' = events \o step.events
        /\ fragments' = Append(fragments, ev)
        /\ num' = num + 1

\* Faulty variant of RunInstruction: the session's clock is reset, as
\* Command::send does before it sends.
RunInstructionResets ==
    /\ state = "run"
    /\ num <= Len(script)
    /\ script[num].kind \in {"Wait", "Marker", "Clear"}
    /\ Yield(RunPure(script[num], DEFAULT_PROMPT))
    /\ since_event' = 0
    /\ UNCHANGED <<script, state, result, sent, stream, since_start, output,
                   prompt, read_call, others>>

\* Wait, Marker, Clear: no session interaction
RunInstruction ==
    /\ state = "run"
    /\ num <= Len(script)
    /\ script[num].kind \in {"Wait", "Marker", "Clear"}
    /\ Yield(RunPure(script[num], DEFAULT_PROMPT))
    /\ UNCHANGED <<script, state, result, session, prompt, read_call, others>>

\* Command: Command::send (reset, then send_line), entering read_until_prompt
SendCommand ==
    /\ state = "run"
    /\ num <= Len(script)
    /\ script[num].kind = "Command"
    /\ since_event' = 0
    /\ sent' = sent \o CommandSendBytes(script[num].command)
    /\ stream' = stream \o ShellAnswer(script[num])
    /\ since_start' = 0
    /\ output' = <<>>
    /\ state' = "read"
    /\ UNCHANGED <<script, num, wait_time, events, fragments, result, prompt,
                   read_call, others>>

\* Faulty variant of ReadIteration: whatever the read returns is taken for
\* the prompt.
ReadIterationAnyData(dt, k) ==
    LET now_event == since_event + dt
        r == ShellSessionRead(SubSeq(stream, 1, k), prompt, now_event)
    IN  [prompt |-> TRUE,
         timeout |-> FALSE,
         events |-> output \o r.event,
         elapsed |-> IF r.event = <<>> THEN now_event ELSE 0,
         started |-> since_start + dt]

\* one iteration of read_until_prompt's loop (spawn.rs:148-155): the read
\* blocks until bytes have arrived, takes dt in all and returns k of them
ReadIteration(dt, k) ==
    LET now_event == since_event + dt
        now_start == since_start + dt
        r == ShellSessionRead(SubSeq(stream, 1, k), prompt, now_event)
    IN  [prompt |-> r.prompt,
         timeout |-> ~r.prompt /\ now_start > timeout,
         events |-> output \o r.event,
         \* new_event sets last_event to now
         elapsed |-> IF r.event = <<>> THEN now_event ELSE 0,
         started |-> now_start]

\* Command::send fails: write_all returned an error after n of the bytes
SendFails ==
    /\ state = "run"
    /\ num <= Len(script)
    /\ script[num].kind = "Command"
    /\ \E n \in 0..(Len(CommandSendBytes(script[num].command)) - 1) :
          sent' = sent \o SubSeq(CommandSendBytes(script[num].command), 1, n)
    /\ since_event' = 0
    /\ state' = "failed"
    /\ UNCHANGED <<script, num, wait_time, events, fragments, result, stream,
                   since_start, output, prompt, read_call, others>>

\* read_until_prompt called by Instruction::run, one iteration: the prompt
\* ends the instruction, the timeout fails it
ReadStep ==
    /\ state = "read"
    /\ \E dt \in Ticks, k \in 1..Len(stream) :
        LET it == ReadIteration(dt, k)
        IN  /\ stream' = SubSeq(stream, k + 1, Len(stream))
            /\ IF it.prompt
               THEN /\ Yield(RunDone(script[num], DEFAULT_PROMPT, it.events, it.elapsed))
                    /\ since_event' = IF EndsWithPrompt(script[num]) THEN 0 ELSE it.elapsed
                    /\ since_start' = 0
                    /\ output' = <<>>
                    /\ state' = "run"
                    /\ UNCHANGED result
               ELSE IF it.timeout
               THEN /\ state' = "failed"
                    /\ since_event' = it.elapsed
                    /\ since_start' = 0
                    /\ output' = <<>>
                    /\ UNCHANGED <<num, wait_time, events, fragments, result>>
               ELSE /\ since_event' = it.elapsed
                    /\ since_start' = it.started
                    /\ output' = it.events
                    /\ UNCHANGED <<num, wait_time, events, fragments, result>>
                    /\ UNCHANGED state
    /\ UNCHANGED <<script, sent, prompt, read_call, others>>

\* the read of the stream fails: read returns the io error
ReadFails ==
    /\ state = "read"
    /\ state' = "failed"
    /\ since_start' = 0
    /\ output' = <<>>
    /\ UNCHANGED <<script, num, wait_time, events, fragments, result, sent,
                   stream, since_event, prompt, read_call, others>>

\* Faulty variant of Finish: the events gathered so far are returned also
\* after an instruction has failed.
FinishAfterFailure ==
    /\ state \in {"run", "failed"}
    /\ state = "run" => num = Len(script) + 1
    /\ result' = Assemble(DEFAULT_PROMPT, events, default_type_speed, wait_time)
    /\ state' = "done"
    /\ UNCHANGED <<script, num, wait_time, events, fragments, session, prompt,
                   read_call, others>>

\* every instruction has run: the chain, the scan and the trailing wait time
Finish ==
    /\ state = "run"
    /\ num = Len(script) + 1
    /\ result' = Assemble(DEFAULT_PROMPT, events, default_type_speed, wait_time)
    /\ state' = "done"
    /\ UNCHANGED <<script, num, wait_time, events, fragments, session, prompt,
                   read_call, others>>

Next ==
    \/ RunInstruction
    \/ SendCommand
    \/ SendFails
    \/ ReadStep
    \/ ReadFails
    \/ Finish

Spec == Init /\ [][Next]_vars

(***************************************************************************)
(* ShellSession::read on its own, as spawn.rs's tests call it: a session   *)
(* made with some prompt over a stream holding some data, read once.  The  *)
(* data and the prompt are any text over two characters, the prompt in the *)
(* middle of the data and the empty prompt included.                       *)
(***************************************************************************)
Chars == {"a", "b"}

InitRead ==
    /\ script = <<>>
    /\ num = 1
    /\ state = "new"
    /\ wait_time = 0
    /\ events = <<>>
    /\ fragments = <<>>
    /\ result = <<>>
    /\ sent = <<>>
    /\ stream \in SeqsUpTo(Chars, MaxData)
    /\ since_event \in Ticks
    /\ since_start = 0
    /\ output = <<>>
    /\ prompt \in SeqsUpTo(Chars, MaxPrompt)
    /\ read_call = <<>>
    /\ NoKeys /\ NoFile /\ Running
    /\ Unconfigured

\* one call of read: read_to_string returns all the stream holds
ReadOnce ==
    /\ state = "new"
    /\ LET r == ShellSessionRead(stream, prompt, since_event)
       IN  /\ read_call' = <<[data |-> stream, returned |-> r]>>
           /\ since_event' = IF r.event = <<>> THEN since_event ELSE 0
    /\ stream' = <<>>
    /\ state' = "returned"
    /\ UNCHANGED <<script, num, wait_time, events, fragments, result, sent,
                   since_start, output, prompt, others>>

NextRead == ReadOnce

SpecRead == InitRead /\ [][NextRead]_vars

(***************************************************************************)
(* Command::events and Command::send for every kind of command: a script   *)
(* of one visible Command is run against a shell that answers with its     *)
(* prompt alone, which the first read returns at once.                     *)
(***************************************************************************)
Lines == SeqsUpTo(Chars, MaxLine)

AllCommands ==
    {[variant |-> "SingleLine", line |-> l] : l \in Lines}
    \cup {[variant |-> "MultiLine", lines |-> ls] : ls \in SeqsUpTo(Lines, MaxLines)}
    \cup {[variant |-> "Control", control |-> c] : c \in ControlCodes}

InitEvents ==
    /\ script \in {<<[kind |-> "Command", command |-> c, hidden |-> FALSE, type_speed |-> ts]>> :
                        c \in AllCommands, ts \in {<<>>, <<OwnTypeSpeed>>}}
    /\ num = 1
    /\ state = "new"
    /\ wait_time = 0
    /\ events = <<>>
    /\ fragments = <<>>
    /\ result = <<>>
    /\ sent = <<>>
    /\ stream = <<>>
    /\ since_event = 0
    /\ since_start = 0
    /\ output = <<>>
    /\ prompt = PROMPT
    /\ read_call = <<>>
    /\ NoKeys /\ NoFile /\ Running
    /\ Unconfigured

\* Instruction::run for the Command: Command::send, a read_until_prompt that
\* returns no event, the prompt event, Command::events
RunCommandAtOnce ==
    /\ state = "new"
    /\ sent' = CommandSendBytes(script[num].command)
    /\ Yield(RunCommandDone(script[num], DEFAULT_PROMPT, <<>>, 0))
    /\ state' = "returned"
    /\ UNCHANGED <<script, result, stream, since_event, since_start, output,
                   prompt, read_call, others>>

NextEvents == RunCommandAtOnce

SpecEvents == InitEvents /\ [][NextEvents]_vars

(***************************************************************************)
(* The life of a session: ShellSession::spawn, which reads until the first *)
(* prompt, the instructions, and ShellSession::quit.  The shell prints a   *)
(* banner before its first prompt; the script may hold a command that      *)
(* prints nothing and does not end; the shell process exits when it        *)
(* chooses to, or never.  The steps of the program are taken whenever they *)
(* can be; the process is under no such obligation.                        *)
(***************************************************************************)
Banner == <<"W">>

QuitCommands == {<<>>, <<<<"e">>>>}

Platforms == {"unix", "windows"}

SilentCommand ==
    [kind |-> "Command", command |-> [variant |-> "SingleLine", line |-> Silent],
     hidden |-> FALSE, type_speed |-> <<>>]

SessionScripts ==
    { <<>>,
      <<[kind |-> "Command", command |-> [variant |-> "SingleLine", line |-> <<"h">>],
         hidden |-> FALSE, type_speed |-> <<>>]>>,
      <<[kind |-> "Marker", data |-> <<"x">>],
        [kind |-> "Command", command |-> [variant |-> "SingleLine", line |-> <<"h">>],
         hidden |-> FALSE, type_speed |-> <<>>]>>,
      <<SilentCommand>> }

\* the process is spawned and ShellSession::new has made the session
InitSession ==
    /\ script \in SessionScripts
    /\ num = 1
    /\ state = "spawn"
    /\ wait_time = 0
    /\ events = <<>>
    /\ fragments = <<>>
    /\ result = <<>>
    /\ sent = <<>>
    /\ stream = Banner \o PROMPT
    /\ since_event = 0
    /\ since_start = 0
    /\ output = <<>>
    /\ prompt = PROMPT
    /\ read_call = <<>>
    /\ NoKeys /\ NoFile
    /\ quit_command \in QuitCommands
    /\ platform \in Platforms
    /\ exited = FALSE
    /\ Unconfigured

\* Faulty variant of SpawnStep: the session is returned after the first read.
SpawnStepFirstRead ==
    /\ state = "spawn"
    /\ \E dt \in Ticks, k \in 1..Len(stream) :
        LET it == ReadIteration(dt, k)
        IN  /\ stream' = SubSeq(stream, k + 1, Len(stream))
            /\ state' = "run"
            /\ since_event' = it.elapsed
            /\ since_start' = 0
            /\ output' = <<>>
    /\ UNCHANGED <<script, num, wait_time, events, fragments, result, sent,
                   prompt, read_call, others>>

\* read_until_prompt called by spawn, one iteration: on the prompt the
\* session is returned and the events are dropped, on the timeout spawn fails
SpawnStep ==
    /\ state = "spawn"
    /\ \E dt \in Ticks, k \in 1..Len(stream) :
        LET it == ReadIteration(dt, k)
        IN  /\ stream' = SubSeq(stream, k + 1, Len(stream))
            /\ IF it.prompt
               THEN /\ state' = "run"
                    /\ since_event' = it.elapsed
                    /\ since_start' = 0
                    /\ output' = <<>>
               ELSE IF it.timeout
               THEN /\ state' = "no_session"
                    /\ since_event' = it.elapsed
                    /\ since_start' = 0
                    /\ output' = <<>>
               ELSE /\ state' = "spawn"
                    /\ since_event' = it.elapsed
                    /\ since_start' = it.started
                    /\ output' = it.events
    /\ UNCHANGED <<script, num, wait_time, events, fragments, result, sent,
                   prompt, read_call, others>>

\* quit, up to the wait: the quit command, when there is one, with send_line
Quit ==
    /\ state = "done"
    /\ sent' = sent \o (IF quit_command = <<>> THEN <<>>
                        ELSE quit_command[1] \o LINE_ENDING)
    /\ state' = "quitting"
    /\ UNCHANGED <<script, num, wait_time, events, fragments, result, stream,
                   since_event, since_start, output, prompt, read_call, others>>

\* the shell process exits
ProcessExits ==
    /\ state = "quitting"
    /\ ~exited
    /\ exited' = TRUE
    /\ UNCHANGED <<script, num, state, wait_time, events, fragments, result,
                   session, prompt, read_call, key_num, until_next, key_times, out_file,
                   overwrite, quit_command, platform, config>>

\* quit's process.wait(timeout) returns.  Wait for UnixProcess drops the
\* timeout and waits for the exit; Wait for WinProcess waits for the exit
\* or for the timeout, which is an error.
QuitWait ==
    /\ state = "quitting"
    /\ IF platform = "unix"
       THEN exited /\ state' = "quit"
       ELSE state' = IF exited THEN "quit" ELSE "failed"
    /\ UNCHANGED <<script, num, wait_time, events, fragments, result, session,
                   prompt, read_call, others>>

\* the steps of the program
SessionSteps ==
    \/ SpawnStep
    \/ RunInstruction
    \/ SendCommand
    \/ ReadStep
    \/ Finish
    \/ Quit
    \/ QuitWait

NextSession == SessionSteps \/ ProcessExits

SpecSession == InitSession /\ [][NextSession]_vars /\ WF_vars(SessionSteps)

(***************************************************************************)
(* Interactive instructions: keys_to_events.  The command starts a program *)
(* that prints the command's output and then takes the keys: it echoes     *)
(* every byte but "q", on which it ends and the shell prints its prompt.   *)
(***************************************************************************)
\* the type speed of the Interactive instructions: one slow read
KeySpeed == CHOOSE t \in Ticks : t > 0

KeyChar(c) == [key |-> "Char", char |-> c]

KeyWait(d) == [key |-> "Wait", duration |-> d]

\* "EURO" stands for the character U+20AC, "xAC" for the byte 0xAC; a
\* character of one letter is an ASCII character and the byte that encodes it
\* `char as u8`: the low byte of the character's code point
AsU8(char) == IF char = "EURO" THEN "xAC" ELSE char

\* Faulty variant of KeyBytes: a Wait key writes a byte of its own.
KeyBytesWaitSends(key) ==
    CASE key.key = "Char" -> <<AsU8(key.char)>>
      [] key.key = "String" -> [i \in 1..Len(key.str) |-> AsU8(key.str[i])]
      [] key.key = "Control" -> ControlAsBytes(key.control)
      [] key.key = "Wait" -> <<"w">>

\* Key::send: the bytes written to the session
KeyBytes(key) ==
    CASE key.key = "Char" -> <<AsU8(key.char)>>
      [] key.key = "String" -> [i \in 1..Len(key.str) |-> AsU8(key.str[i])]
      [] key.key = "Control" -> ControlAsBytes(key.control)
      [] key.key = "Wait" -> <<>>

\* what the program prints for the bytes of a key
ProgramAnswer(bytes) ==
    Flatten([i \in 1..Len(bytes) |-> IF bytes[i] = "q" THEN PROMPT ELSE <<bytes[i]>>])

KeyLists ==
    { <<KeyChar("q")>>,
      <<KeyChar("a"), KeyChar("q")>>,
      <<KeyChar("q"), KeyChar("a")>>,
      <<KeyWait(KeySpeed), KeyChar("q")>> }

Interactive(keys) ==
    [kind |-> "Interactive", command |-> [variant |-> "SingleLine", line |-> <<"v">>],
     keys |-> keys, type_speed |-> <<KeySpeed>>]

\* a Wait key of twice the type speed
LongWait == KeyWait(2 * KeySpeed)

\* an Interactive whose program prints enough for the reads to go on while
\* the keys are waited for
InteractiveLong(keys) ==
    [kind |-> "Interactive",
     command |-> [variant |-> "SingleLine", line |-> <<"v", "v", "v">>],
     keys |-> keys, type_speed |-> <<KeySpeed>>]

\* an Interactive typed faster than a slow read takes
FastSpeed == KeySpeed \div 2

InteractiveFast(keys) ==
    [kind |-> "Interactive",
     command |-> [variant |-> "SingleLine", line |-> <<"v", "v", "v">>],
     keys |-> keys, type_speed |-> <<FastSpeed>>]

KeysScripts ==
    {<<Interactive(ks)>> : ks \in KeyLists}
    \cup {<<InteractiveLong(<<LongWait, KeyChar("q")>>)>>}
    \cup {<<Interactive(<<KeyChar("EURO"), KeyChar("q")>>)>>,
           <<Interactive(<<[key |-> "String", str |-> <<"a", "EURO">>],
                           KeyChar("q")>>)>>}
    \cup {<<InteractiveFast(<<KeyChar("a"), KeyChar("q")>>)>>,
           <<InteractiveFast(<<KeyWait(FastSpeed), KeyChar("q")>>)>>}
    \cup {<<[kind |-> "Marker", data |-> <<"x">>], Interactive(ks)>> : ks \in KeyLists}
    \cup {<<Interactive(ks),
            [kind |-> "Command", command |-> [variant |-> "SingleLine", line |-> <<"h">>],
             hidden |-> FALSE, type_speed |-> <<>>]>> : ks \in KeyLists}
    \cup {<<[kind |-> "Command", command |-> [variant |-> "SingleLine", line |-> <<"h">>],
             hidden |-> TRUE, type_speed |-> <<>>],
            Interactive(ks)>> : ks \in KeyLists}

InitKeys ==
    /\ script \in KeysScripts
    /\ num = 1
    /\ state = "run"
    /\ wait_time = 0
    /\ events = <<>>
    /\ fragments = <<>>
    /\ result = <<>>
    /\ sent = <<>>
    /\ stream = <<>>
    /\ since_event = 0
    /\ since_start = 0
    /\ output = <<>>
    /\ prompt = PROMPT
    /\ read_call = <<>>
    /\ NoKeys /\ NoFile /\ Running
    /\ Unconfigured

\* when key number n + 1 of the running Interactive is due, counted from the
\* start of keys_to_events
RECURSIVE KeysDue(_)
KeysDue(n) ==
    IF n = 0 THEN script[num].type_speed[1]
    ELSE LET key == script[num].keys[n]
         IN  KeysDue(n - 1) + (IF key.key = "Wait" THEN key.duration ELSE 0)
                 + script[num].type_speed[1]

\* the time since the running instruction's command was sent
InstructionClock ==
    IF state = "keys" THEN KeysDue(key_num) - until_next ELSE since_start

\* Faulty variant of SendInteractive: the command is sent without the reset
\* of the session's clock.
SendInteractiveNoReset ==
    /\ state = "run"
    /\ num <= Len(script)
    /\ script[num].kind = "Interactive"
    /\ sent' = sent \o CommandSendBytes(script[num].command)
    /\ stream' = stream \o ShellAnswer(script[num])
    /\ key_num' = 0
    /\ until_next' = script[num].type_speed[1]
    /\ key_times' = <<>>
    /\ output' = <<>>
    /\ state' = "keys"
    /\ UNCHANGED <<script, num, wait_time, events, fragments, result, since_event,
                   since_start, prompt, read_call, out_file, overwrite,
                   quit_command, platform, exited, config>>

\* Interactive: Command::send, entering keys_to_events (run.rs:128-133, 160-168)
SendInteractive ==
    /\ state = "run"
    /\ num <= Len(script)
    /\ script[num].kind = "Interactive"
    /\ since_event' = 0
    /\ sent' = sent \o CommandSendBytes(script[num].command)
    /\ stream' = stream \o ShellAnswer(script[num])
    /\ key_num' = 0
    /\ until_next' = script[num].type_speed[1]
    /\ key_times' = <<>>
    /\ output' = <<>>
    /\ state' = "keys"
    /\ UNCHANGED <<script, num, wait_time, events, fragments, result, since_start,
                   prompt, read_call, out_file, overwrite, quit_command, platform,
                   exited, config>>

\* Faulty variant of KeysDecision: a key that is due is sent before the
\* prompt is looked at.
KeysDecisionSendFirst(prompt_seen, remaining, taken, keys) ==
    IF remaining <= 0 /\ taken < Len(keys) THEN "send"
    ELSE IF prompt_seen THEN "return"
    ELSE IF remaining > 0 THEN "loop"
    ELSE "read_until_prompt"

\* what keys_to_events does after a read (run.rs:174-195): remaining is
\* next - Instant::now(), taken the number of keys the iterator has given
KeysDecision(prompt_seen, remaining, taken, keys) ==
    IF prompt_seen THEN "return"
    ELSE IF remaining > 0 THEN "loop"
    ELSE IF taken < Len(keys) THEN "send"
    ELSE "read_until_prompt"

\* one iteration of keys_to_events' loop: the read takes dt and returns k bytes
KeysStep ==
    /\ state = "keys"
    /\ \E dt \in Ticks, k \in 1..Len(stream) :
        LET now_event == since_event + dt
            r == ShellSessionRead(SubSeq(stream, 1, k), prompt, now_event)
            out == output \o r.event
            after == IF r.event = <<>> THEN now_event ELSE 0
            rest == SubSeq(stream, k + 1, Len(stream))
            remaining == until_next - dt
            now == InstructionClock + dt
            keys == script[num].keys
            do == KeysDecision(r.prompt, remaining, key_num, keys)
        IN  /\ read_call' = <<[data |-> SubSeq(stream, 1, k), returned |-> r]>>
            /\ CASE do = "return" ->
                       /\ Yield(RunDone(script[num], DEFAULT_PROMPT, out, after))
                       /\ stream' = rest
                       /\ since_event' = 0
                       /\ output' = <<>>
                       /\ until_next' = 0
                       /\ state' = "run"
                       /\ UNCHANGED <<sent, key_num, key_times>>
                 [] do = "loop" ->
                       /\ stream' = rest
                       /\ since_event' = after
                       /\ output' = out
                       /\ until_next' = remaining
                       /\ UNCHANGED <<num, state, wait_time, events, fragments, sent,
                                      key_num, key_times>>
                 [] do = "send" ->
                       LET key == keys[key_num + 1]
                       IN  /\ sent' = sent \o KeyBytes(key)
                           /\ stream' = rest \o ProgramAnswer(KeyBytes(key))
                           /\ since_event' = after
                           /\ output' = out
                           /\ key_num' = key_num + 1
                           /\ key_times' = Append(key_times, now)
                           /\ until_next' = remaining
                                   + (IF key.key = "Wait" THEN key.duration ELSE 0)
                                   + script[num].type_speed[1]
                           /\ UNCHANGED <<num, state, wait_time, events, fragments>>
                 [] do = "read_until_prompt" ->
                       /\ stream' = rest
                       /\ since_event' = after
                       /\ output' = out
                       /\ until_next' = 0
                       /\ state' = "read"
                       /\ UNCHANGED <<num, wait_time, events, fragments, sent,
                                      key_num, key_times>>
    /\ UNCHANGED <<script, result, since_start, prompt, out_file, overwrite,
                   quit_command, platform, exited, config>>

NextKeys ==
    \/ RunInstruction
    \/ SendCommand
    \/ ReadStep
    \/ SendInteractive
    \/ KeysStep
    \/ Finish

SpecKeys == InitKeys /\ [][NextKeys]_vars

\* the same, the steps of the program taken whenever they can be
SpecKeysFair == SpecKeys /\ WF_vars(NextKeys)

(***************************************************************************)
(* main: the output file is opened, the script is run, the recording is    *)
(* written.  The output file is not there or holds an older recording.     *)
(***************************************************************************)
MainScripts ==
    { <<[kind |-> "Marker", data |-> <<"x">>]>>,
      <<[kind |-> "Command", command |-> [variant |-> "SingleLine", line |-> <<"h">>],
         hidden |-> FALSE, type_speed |-> <<>>]>>,
      <<[kind |-> "Marker", data |-> <<"x">>],
        [kind |-> "Command", command |-> [variant |-> "SingleLine", line |-> <<"h">>],
         hidden |-> FALSE, type_speed |-> <<>>]>> }

\* the script is parsed, the settings are merged
InitMain ==
    /\ script \in MainScripts
    /\ num = 1
    /\ state = "main"
    /\ wait_time = 0
    /\ events = <<>>
    /\ fragments = <<>>
    /\ result = <<>>
    /\ sent = <<>>
    /\ stream = <<>>
    /\ since_event = 0
    /\ since_start = 0
    /\ output = <<>>
    /\ prompt = PROMPT
    /\ read_call = <<>>
    /\ NoKeys /\ Running
    /\ out_file \in {Absent, OldFile}
    /\ overwrite \in BOOLEAN
    /\ Unconfigured

\* Faulty variant of OpenOutFile: the file is opened with create and truncate
\* whatever --overwrite says.
OpenOutFileAlways ==
    /\ state = "main"
    /\ state' = "run"
    /\ out_file' = EmptyFile
    /\ UNCHANGED <<script, num, wait_time, events, fragments, result, session,
                   prompt, read_call, key_num, until_next, key_times, overwrite,
                   quit_command, platform, exited, config>>

\* fs::File::options().write(true).create_new(!overwrite).create(overwrite)
\* .truncate(true).open(out_file): an error when the file is there and is not
\* to be overwritten, else the file is there and empty; then the script runs
OpenOutFile ==
    /\ state = "main"
    /\ IF out_file.exists /\ ~overwrite
       THEN state' = "not_opened" /\ UNCHANGED out_file
       ELSE state' = "run" /\ out_file' = EmptyFile
    /\ UNCHANGED <<script, num, wait_time, events, fragments, result, session,
                   prompt, read_call, key_num, until_next, key_times, overwrite,
                   quit_command, platform, exited, config>>

\* File::write: the header, then every event
WriteCast ==
    /\ state = "done"
    /\ out_file' = [exists |-> TRUE, header |-> TRUE, events |-> result]
    /\ state' = "written"
    /\ UNCHANGED <<script, num, wait_time, events, fragments, result, session,
                   prompt, read_call, key_num, until_next, key_times, overwrite,
                   quit_command, platform, exited, config>>

NextMain ==
    \/ OpenOutFile
    \/ RunInstruction
    \/ SendCommand
    \/ SendFails
    \/ ReadStep
    \/ ReadFails
    \/ Finish
    \/ WriteCast

SpecMain == InitMain /\ [][NextMain]_vars

(***************************************************************************)
(* asciicast::Header and its serialization.  An Option is a sequence of    *)
(* at most one value, the env map a function of the names it holds, a      *)
(* timestamp the seconds from the unix epoch to it (negative: before it).  *)
(* What is emitted is the sequence of the fields given to serialize_field, *)
(* and on an error what had been given before it.                          *)
(***************************************************************************)
\* Header::VERSION
VERSION == 2

\* the env map with no entry
NoEnv == [n \in {} |-> <<>>]

\* a field as serialize_field takes it: the key, and the JSON value as a
\* sequence of one value, the empty sequence being JSON's null
Field(key, value) == [key |-> key, value |-> <<value>>]

\* serialize_field for an Option that `if let Some` guards
FieldIfSome(key, option) == IF option = <<>> THEN <<>> ELSE <<Field(key, option[1])>>

\* Faulty variant of HeaderSerialize: an Option that is None is given to
\* serialize_field as it is, and the empty env map as well.
HeaderSerializeNulls(h) ==
    LET FieldOrNull(key, option) ==
            <<[key |-> key, value |-> option]>>
        fixed == <<Field("version", VERSION), Field("width", h.width),
                   Field("height", h.height)>>
    IN  IF h.timestamp # <<>> /\ h.timestamp[1] < 0
        THEN [ok |-> FALSE, fields |-> fixed]
        ELSE [ok |-> TRUE,
              fields |-> fixed
                  \o FieldOrNull("timestamp", h.timestamp)
                  \o FieldOrNull("duration", h.duration)
                  \o FieldOrNull("idle_time_limit", h.idle_time_limit)
                  \o FieldOrNull("command", h.command)
                  \o FieldOrNull("title", h.title)
                  \o <<Field("env", h.env)>>]

\* Serialize for Header
HeaderSerialize(h) ==
    LET fixed == <<Field("version", VERSION), Field("width", h.width),
                   Field("height", h.height)>>
    IN  IF h.timestamp # <<>> /\ h.timestamp[1] < 0
        THEN \* duration_since(UNIX_EPOCH) is an Err: the custom error
             [ok |-> FALSE, fields |-> fixed]
        ELSE [ok |-> TRUE,
              fields |-> fixed
                  \o FieldIfSome("timestamp", h.timestamp)
                  \o FieldIfSome("duration", h.duration)
                  \o FieldIfSome("idle_time_limit", h.idle_time_limit)
                  \o FieldIfSome("command", h.command)
                  \o FieldIfSome("title", h.title)
                  \o (IF DOMAIN h.env # {} THEN <<Field("env", h.env)>> ELSE <<>>)]

\* the headers given to the serializer
Headers ==
    [width : {80, 100}, height : {24},
     timestamp : {<<>>, <<-1>>, <<5>>},
     duration : {<<>>, <<3>>},
     idle_time_limit : {<<>>, <<2>>},
     command : {<<>>, <<"c">>},
     title : {<<>>, <<"t">>},
     env : {NoEnv, [n \in {"SHELL"} |-> "bash"]}]

InitHeader ==
    /\ script = <<>>
    /\ num = 1
    /\ state = "new"
    /\ wait_time = 0
    /\ events = <<>>
    /\ fragments = <<>>
    /\ result = <<>>
    /\ sent = <<>>
    /\ stream = <<>>
    /\ since_event = 0
    /\ since_start = 0
    /\ output = <<>>
    /\ prompt = PROMPT
    /\ read_call = <<>>
    /\ NoKeys /\ NoFile /\ Running
    /\ settings = <<>> /\ host = <<>>
    /\ header \in Headers
    /\ emitted = <<>>
    /\ input = <<>> /\ parsed = <<>>

\* header.serialize(&mut serializer(&mut writer))
SerializeHeader ==
    /\ state = "new"
    /\ emitted' = HeaderSerialize(header)
    /\ state' = "returned"
    /\ UNCHANGED <<script, num, wait_time, events, fragments, result, session,
                   prompt, read_call, key_num, until_next, key_times, out_file, overwrite,
                   quit_command, platform, exited, settings, host, header,
                   input, parsed>>

SpecHeader == InitHeader /\ [][SerializeHeader]_vars

(***************************************************************************)
(* TryFrom<Script> for asciicast::File (config.rs): the terminal size is   *)
(* resolved, the shell is spawned, the instructions are run, the header is *)
(* built.  The host is the invoking terminal, whose size may not be had,   *)
(* and the process's own environment, where a variable is unset, set, or   *)
(* set to a value that is not valid unicode.                               *)
(***************************************************************************)
\* Settings.shell: the built-in shells and a custom program
Shells ==
    { [variant |-> "Bash"], [variant |-> "Python"],
      [variant |-> "Custom", program |-> "fish"] }

\* Settings.environment, each EnvVar as the pair of its name and its value:
\* none, one, a duplicate, SHELL itself
Environments ==
    { <<>>,
      << <<"A", "1">> >>,
      << <<"A", "1">>, <<"A", "2">> >>,
      << <<"SHELL", "zsh">> >> }

\* Settings.environment_capture
Captures == { <<>>, <<"A">>, <<"TERM">>, <<"SHELL">>, <<"A", "TERM">> }

SettingsSet ==
    [width : {<<>>, <<80>>}, height : {<<>>, <<24>>}, title : {<<"t">>},
     shell : Shells, environment : Environments, environment_capture : Captures]

\* a value std::env::var cannot return as a String
NotUnicode == "<not unicode>"

\* the process's environment: the variables that are set
HostEnvs ==
    { NoEnv,
      [n \in {"A", "TERM", "SHELL"} |->
          CASE n = "A" -> "0" [] n = "TERM" -> "xterm" [] n = "SHELL" -> "sh"],
      [n \in {"TERM"} |-> NotUnicode] }

\* terminal_size::terminal_size()
TerminalSizes == { <<>>, <<[width |-> 120, height |-> 40]>> }

\* SystemTime::now(), in seconds since the unix epoch
Now == 5

ConfigScripts ==
    { <<[kind |-> "Marker", data |-> <<"x">>]>>,
      <<[kind |-> "Command", command |-> [variant |-> "SingleLine", line |-> <<"h">>],
         hidden |-> FALSE, type_speed |-> <<>>]>> }

InitConfig ==
    /\ script \in ConfigScripts
    /\ num = 1
    /\ state = "config"
    /\ wait_time = 0
    /\ events = <<>>
    /\ fragments = <<>>
    /\ result = <<>>
    /\ sent = <<>>
    /\ stream = <<>>
    /\ since_event = 0
    /\ since_start = 0
    /\ output = <<>>
    /\ prompt = PROMPT
    /\ read_call = <<>>
    /\ NoKeys /\ NoFile /\ Running
    /\ settings \in SettingsSet
    /\ host \in [terminal : TerminalSizes, env : HostEnvs, asked : {FALSE}]
    /\ header = <<>>
    /\ emitted = <<>>
    /\ input = <<>> /\ parsed = <<>>

\* Option::unwrap_or
UnwrapOr(option, default) == IF option = <<>> THEN default ELSE option[1]

\* Faulty variant of ResolvedSize: the terminal's size is taken whenever it
\* is had.
ResolvedSizeOfTerminal(width, height, terminal) ==
    IF terminal = <<>>
    THEN IF width = <<>> \/ height = <<>>
         THEN [ok |-> FALSE, asked |-> TRUE]
         ELSE [ok |-> TRUE, asked |-> TRUE, width |-> width[1], height |-> height[1]]
    ELSE [ok |-> TRUE, asked |-> TRUE,
          width |-> terminal[1].width, height |-> terminal[1].height]

\* the match on (width, height) (config.rs:56-68): `asked` tells whether
\* terminal_size() is called
ResolvedSize(width, height, terminal) ==
    IF width = <<>> \/ height = <<>>
    THEN IF terminal = <<>>
         THEN [ok |-> FALSE, asked |-> TRUE]
         ELSE [ok |-> TRUE, asked |-> TRUE,
               width |-> UnwrapOr(width, terminal[1].width),
               height |-> UnwrapOr(height, terminal[1].height)]
    ELSE [ok |-> TRUE, asked |-> FALSE, width |-> width[1], height |-> height[1]]

\* the new bindings of width and height, or the error
ResolveSize ==
    /\ state = "config"
    /\ LET r == ResolvedSize(settings.width, settings.height, host.terminal)
       IN  /\ host' = [host EXCEPT !.asked = r.asked]
           /\ IF r.ok
              THEN /\ settings' = [settings EXCEPT !.width = <<r.width>>,
                                                   !.height = <<r.height>>]
                   /\ state' = "resolved"
              ELSE /\ state' = "failed"
                   /\ UNCHANGED settings
    /\ UNCHANGED <<script, num, wait_time, events, fragments, result, session,
                   prompt, read_call, key_num, until_next, key_times, out_file, overwrite,
                   quit_command, platform, exited, header, emitted, input, parsed>>

\* shell.spawn: the process is started and prints its banner and its prompt
SpawnShell ==
    /\ state = "resolved"
    /\ stream' = Banner \o PROMPT
    /\ state' = "spawn"
    /\ UNCHANGED <<script, num, wait_time, events, fragments, result, sent,
                   since_event, since_start, output, prompt, read_call, others>>

\* HashMap::insert
Insert(map, name, value) ==
    [n \in DOMAIN map \cup {name} |-> IF n = name THEN value ELSE map[n]]

\* environment.into_iter().map(Into::into).collect()
RECURSIVE Collect(_)
Collect(pairs) ==
    IF pairs = <<>> THEN NoEnv
    ELSE LET last == pairs[Len(pairs)]
         IN  Insert(Collect(SubSeq(pairs, 1, Len(pairs) - 1)), last[1], last[2])

\* std::env::var(key).unwrap_or_default(): the empty string for a variable
\* that is unset or whose value is not valid unicode
VarOrDefault(env, name) ==
    IF name \in DOMAIN env /\ env[name] # NotUnicode THEN env[name] ELSE ""

\* Faulty variant of Capture: the captured value replaces the one there.
RECURSIVE CaptureReplaces(_, _, _)
CaptureReplaces(map, names, env) ==
    IF names = <<>> THEN map
    ELSE CaptureReplaces(Insert(map, names[1], VarOrDefault(env, names[1])),
                         Tail(names), env)

\* the loop over environment_capture: entry(env_var).or_insert_with_key
RECURSIVE Capture(_, _, _)
Capture(map, names, env) ==
    IF names = <<>> THEN map
    ELSE Capture(IF names[1] \in DOMAIN map THEN map
                 ELSE Insert(map, names[1], VarOrDefault(env, names[1])),
                 Tail(names), env)

\* shell_env (config.rs:71-75)
ShellEnv(shell) ==
    CASE shell.variant = "Bash" -> "bash"
      [] shell.variant = "Python" -> "python"
      [] shell.variant = "Custom" -> shell.program

\* Faulty variant of HeaderEnv: SHELL is set first, as a default.
HeaderEnvShellFirst(environment, environment_capture, env, shell) ==
    Capture(Collect(<< <<"SHELL", ShellEnv(shell)>> >> \o environment),
            environment_capture, env)

\* the header's env map (config.rs:97-102)
HeaderEnv(environment, environment_capture, env, shell) ==
    Insert(Capture(Collect(environment), environment_capture, env),
           "SHELL", ShellEnv(shell))

\* the instructions have run: the env map and the File with its header
BuildFile ==
    /\ state = "done"
    /\ header' = [width |-> settings.width[1],
                  height |-> settings.height[1],
                  timestamp |-> <<Now>>,
                  duration |-> <<>>,
                  idle_time_limit |-> <<>>,
                  command |-> <<>>,
                  title |-> settings.title,
                  env |-> HeaderEnv(settings.environment, settings.environment_capture,
                                    host.env, settings.shell)]
    /\ state' = "cast"
    /\ UNCHANGED <<script, num, wait_time, events, fragments, result, session,
                   prompt, read_call, key_num, until_next, key_times, out_file, overwrite,
                   quit_command, platform, exited, settings, host, emitted,
                   input, parsed>>

NextConfig ==
    \/ ResolveSize
    \/ SpawnShell
    \/ SpawnStep
    \/ RunInstruction
    \/ SendCommand
    \/ ReadStep
    \/ Finish
    \/ BuildFile

SpecConfig == InitConfig /\ [][NextConfig]_vars

(***************************************************************************)
(* Deserialization of a Command and of a Key (config/de.rs, de/command.rs, *)
(* de/key.rs): what the visitors return for a string, a sequence, a char   *)
(* and a tagged value.  A result is Ok with the value or Err with the      *)
(* message.  A std::time::Duration is its number of microseconds.          *)
(***************************************************************************)
\* longest text given to a visitor
MaxText == 3

Ok(value) == [ok |-> TRUE, value |-> value]

Err(error) == [ok |-> FALSE, error |-> error]

\* char::is_whitespace
IsWhitespace(char) == char \in {" ", "\n", "\r", "\t"}

IsPrefixOf(p, v) == Len(p) <= Len(v) /\ SubSeq(v, 1, Len(p)) = p

\* str::strip_prefix, given that the prefix is there
StripPrefix(v, p) == SubSeq(v, Len(p) + 1, Len(v))

\* str::strip_suffix, given that the suffix is there
StripSuffix(v, p) == SubSeq(v, 1, Len(v) - Len(p))

\* str::trim
RECURSIVE TrimStart(_)
TrimStart(v) == IF v # <<>> /\ IsWhitespace(v[1]) THEN TrimStart(Tail(v)) ELSE v

RECURSIVE TrimEnd(_)
TrimEnd(v) ==
    IF v # <<>> /\ IsWhitespace(v[Len(v)]) THEN TrimEnd(SubSeq(v, 1, Len(v) - 1)) ELSE v

Trim(v) == TrimEnd(TrimStart(v))

\* str::lines: the text between line feeds, without a final empty line and
\* without the carriage return that ends a line
RECURSIVE SplitLines(_, _)
SplitLines(v, current) ==
    IF v = <<>> THEN (IF current = <<>> THEN <<>> ELSE <<current>>)
    ELSE IF v[1] = "\n"
         THEN <<IF current # <<>> /\ current[Len(current)] = "\r"
                THEN SubSeq(current, 1, Len(current) - 1) ELSE current>>
                  \o SplitLines(Tail(v), <<>>)
         ELSE SplitLines(Tail(v), Append(current, v[1]))

StrLines(v) == SplitLines(v, <<>>)

\* char::try_into::<ControlCode> for the characters of the model: a letter
\* in either case and "^" have a control code, a digit and a line feed none
ControlOfChar(char) ==
    CASE char \in {"c", "C"} -> <<"C">>
      [] char \in {"d", "D"} -> <<"D">>
      [] char \in {"m", "M"} -> <<"M">>
      [] char \in {"s", "S"} -> <<"S">>
      [] char = "^" -> <<"^">>
      [] OTHER -> <<>>

invalid_control == Err("valid control char")

\* Faulty variant of parse_control: the first character is taken.
parse_control_first(control) ==
    IF control = <<>>
    THEN Err("single control char")
    ELSE IF ControlOfChar(control[1]) = <<>> THEN invalid_control
    ELSE Ok(ControlOfChar(control[1])[1])

parse_control(control) ==
    IF Len(control) # 1
    THEN Err("single control char")
    ELSE IF ControlOfChar(control[1]) = <<>> THEN invalid_control
    ELSE Ok(ControlOfChar(control[1])[1])

\* variant.newtype_variant::<char>(): a string of exactly one character
NewtypeChar(payload) ==
    IF Len(payload) = 1 THEN Ok(payload[1]) ELSE Err("expected a character")

control_from_variant(payload) ==
    IF ~NewtypeChar(payload).ok THEN NewtypeChar(payload)
    ELSE IF ControlOfChar(payload[1]) = <<>> THEN invalid_control
    ELSE Ok(ControlOfChar(payload[1])[1])

\* str::parse::<u64>: decimal digits after an optional plus sign
DigitValue(char) ==
    CASE char = "0" -> 0 [] char = "1" -> 1 [] char = "2" -> 2 [] char = "3" -> 3
      [] char = "4" -> 4 [] char = "5" -> 5 [] char = "6" -> 6 [] char = "7" -> 7
      [] char = "8" -> 8 [] char = "9" -> 9 [] OTHER -> -1

RECURSIVE DigitsValue(_)
DigitsValue(digits) ==
    IF digits = <<>> THEN 0
    ELSE 10 * DigitsValue(SubSeq(digits, 1, Len(digits) - 1))
            + DigitValue(digits[Len(digits)])

\* u64::MAX, in decimal digits
U64Max ==
    <<"1", "8", "4", "4", "6", "7", "4", "4", "0", "7", "3", "7", "0", "9", "5",
      "5", "1", "6", "1", "5">>

RECURSIVE Significant(_)
Significant(digits) ==
    IF digits # <<>> /\ digits[1] = "0" THEN Significant(Tail(digits)) ELSE digits

\* the number the digits write is more than u64::MAX
ExceedsU64(digits) ==
    LET d == Significant(digits)
    IN  \/ Len(d) > Len(U64Max)
        \/ /\ Len(d) = Len(U64Max)
           /\ \E i \in 1..Len(d) :
                 /\ SubSeq(d, 1, i - 1) = SubSeq(U64Max, 1, i - 1)
                 /\ DigitValue(d[i]) > DigitValue(U64Max[i])

ParseU64(v) ==
    LET digits == IF v # <<>> /\ v[1] = "+" THEN Tail(v) ELSE v
    IN  IF digits = <<>> \/ \E n \in 1..Len(digits) : DigitValue(digits[n]) < 0
        THEN Err("the duration could not be parsed as an integer")
        ELSE IF ExceedsU64(digits)
        THEN Err("the duration could not be parsed as an integer")
        ELSE Ok(DigitsValue(digits))

DurationParseSecondsFirst(text) ==
    LET v == Trim(text)
        Number(suffix, micros) ==
            LET n == ParseU64(StripSuffix(v, suffix))
            IN  IF n.ok THEN Ok(n.value * micros) ELSE n
    IN  IF \E n \in 1..Len(v) : IsWhitespace(v[n])
        THEN Err("the duration cannot contain whitespace")
        ELSE IF EndsWith(v, <<"s">>) THEN Number(<<"s">>, 1000000)
        ELSE IF EndsWith(v, <<"m", "s">>) THEN Number(<<"m", "s">>, 1000)
        ELSE IF EndsWith(v, <<"u", "s">>) THEN Number(<<"u", "s">>, 1)
        ELSE Err("the duration has an unknown unit, must be: s, ms, or us")

\* duration::parse
DurationParse(text) ==
    LET v == Trim(text)
        Number(suffix, micros) ==
            LET n == ParseU64(StripSuffix(v, suffix))
            IN  IF n.ok THEN Ok(n.value * micros) ELSE n
    IN  IF \E n \in 1..Len(v) : IsWhitespace(v[n])
        THEN Err("the duration cannot contain whitespace")
        ELSE IF EndsWith(v, <<"m", "s">>) THEN Number(<<"m", "s">>, 1000)
        ELSE IF EndsWith(v, <<"u", "s">>) THEN Number(<<"u", "s">>, 1)
        ELSE IF EndsWith(v, <<"s">>) THEN Number(<<"s">>, 1000000)
        ELSE Err("the duration has an unknown unit, must be: s, ms, or us")

\* <Duration as FromStr>::from_str of the settings: the variant is kept
DurationFromStr(s) ==
    LET Number(suffix, variant) ==
            LET n == ParseU64(StripSuffix(s, suffix))
            IN  IF n.ok THEN Ok([variant |-> variant, value |-> n.value]) ELSE n
    IN  IF \E n \in 1..Len(s) : IsWhitespace(s[n])
        THEN Err("the duration cannot contain whitespace")
        ELSE IF EndsWith(s, <<"m", "s">>) THEN Number(<<"m", "s">>, "Milliseconds")
        ELSE IF EndsWith(s, <<"u", "s">>) THEN Number(<<"u", "s">>, "Microseconds")
        ELSE IF EndsWith(s, <<"s">>) THEN Number(<<"s">>, "Seconds")
        ELSE Err("the duration has an unknown unit, must be: s, ms, or us")

\* the decimal digits `{}` writes for an unsigned integer
RECURSIVE ToDigits(_)
ToDigits(n) ==
    LET digit == <<"0", "1", "2", "3", "4", "5", "6", "7", "8", "9">>[(n % 10) + 1]
    IN  IF n < 10 THEN <<digit>> ELSE Append(ToDigits(n \div 10), digit)

\* Faulty variant of DurationDisplay: every duration is written in seconds.
DurationDisplayNoUnit(d) == ToDigits(d.value) \o <<"s">>

\* <Duration as Display>::fmt of the settings
DurationDisplay(d) ==
    ToDigits(d.value)
        \o CASE d.variant = "Seconds" -> <<"s">>
             [] d.variant = "Milliseconds" -> <<"m", "s">>
             [] d.variant = "Microseconds" -> <<"u", "s">>

SingleLine(text) == [variant |-> "SingleLine", line |-> text]

MultiLine(lines) == [variant |-> "MultiLine", lines |-> lines]

Control(control) == [variant |-> "Control", control |-> control]

\* the Result of a control parse as the Result of the Command
CommandControl(r) == IF r.ok THEN Ok(Control(r.value)) ELSE r

\* command::Visitor::visit_str
CommandVisitStr(v) ==
    IF IsPrefixOf(<<"^">>, v)
    THEN CommandControl(parse_control(StripPrefix(v, <<"^">>)))
    ELSE IF Contains(v, <<"\n">>)
    THEN Ok(MultiLine(StrLines(v)))
    ELSE Ok(SingleLine(v))

\* command::Visitor::visit_string
CommandVisitString(v) ==
    IF IsPrefixOf(<<"^">>, v) \/ Contains(v, <<"\n">>)
    THEN CommandVisitStr(v)
    ELSE Ok(SingleLine(v))

\* command::Visitor::visit_seq
CommandVisitSeq(strings) == Ok(MultiLine(strings))

\* Faulty variant of CommandVisitEnum: the tagged SingleLine takes any string.
CommandVisitEnumUnchecked(tag, payload) ==
    CASE tag = "SingleLine" -> Ok(SingleLine(payload))
      [] tag = "MultiLine" -> Ok(MultiLine(payload))
      [] tag = "Control" -> CommandControl(control_from_variant(payload))

\* command::Visitor::visit_enum
CommandVisitEnum(tag, payload) ==
    CASE tag = "SingleLine" ->
            IF Contains(payload, <<"\n">>)
            THEN Err("single line string")
            ELSE Ok(SingleLine(payload))
      [] tag = "MultiLine" -> Ok(MultiLine(payload))
      [] tag = "Control" -> CommandControl(control_from_variant(payload))

KeyString(str) == [key |-> "String", str |-> str]

KeyControl(control) == [key |-> "Control", control |-> control]

\* the Result of a control parse, of a duration parse, as the Result of the Key
KeyOfControl(r) == IF r.ok THEN Ok(KeyControl(r.value)) ELSE r

KeyOfDuration(r) == IF r.ok THEN Ok(KeyWait(r.value)) ELSE r

\* key::Visitor::visit_char
KeyVisitChar(v) == Ok(KeyChar(v))

\* key::Visitor::visit_str
KeyVisitStr(v) ==
    IF IsPrefixOf(<<"^">>, v)
    THEN KeyOfControl(parse_control(StripPrefix(v, <<"^">>)))
    ELSE IF IsPrefixOf(<<"!", "S", "t", "r", " ">>, v)
    THEN Ok(KeyString(StripPrefix(v, <<"!", "S", "t", "r", " ">>)))
    ELSE IF Len(v) = 1
    THEN Ok(KeyChar(v[1]))
    ELSE KeyOfDuration(DurationParse(v))

\* key::Visitor::visit_enum
KeyVisitEnum(tag, payload) ==
    CASE tag = "Char" ->
            IF NewtypeChar(payload).ok THEN Ok(KeyChar(payload[1]))
            ELSE NewtypeChar(payload)
      [] tag = "Str" -> Ok(KeyString(payload))
      [] tag = "Control" -> KeyOfControl(control_from_variant(payload))
      [] tag = "Wait" -> KeyOfDuration(DurationParse(payload))

\* the characters of the texts given to the visitors
ParseChars == {"^", "c", "m", "s", "1", "\n"}

Texts ==
    SeqsUpTo(ParseChars, MaxText)
    \cup {<<"!", "S", "t", "r", " ", "c">>}

TextLists == {<<>>, <<<<"c">>>>, <<<<"c">>, <<"^", "c">>>>, <<<<"c", "\n">>, <<"m">>>>}

DurationChars == {"0", "1", "s", "m", "u", " ", "+", "-"}

DurationTexts == SeqsUpTo(DurationChars, MaxText)

\* the settings' durations, the defaults of type_speed and timeout among them
DurationValues ==
    {[variant |-> v, value |-> n] :
        v \in {"Seconds", "Milliseconds", "Microseconds"},
        n \in {0, 1, 9, 10, 30, 100, 101, 1000, 65536}}

\* what a deserializer gives to the visitor of a Command or of a Key
Inputs ==
    {[target |-> "Command", form |-> f, text |-> t] : f \in {"str", "string"}, t \in Texts}
    \cup {[target |-> "Command", form |-> "seq", items |-> l] : l \in TextLists}
    \cup {[target |-> "Command", form |-> "enum", tag |-> g, text |-> t] :
            g \in {"SingleLine", "Control"}, t \in Texts}
    \cup {[target |-> "Command", form |-> "enum", tag |-> "MultiLine", items |-> l] :
            l \in TextLists}
    \cup {[target |-> "Key", form |-> "str", text |-> t] : t \in Texts}
    \cup {[target |-> "Key", form |-> "char", text |-> <<c>>] : c \in ParseChars}
    \cup {[target |-> "Key", form |-> "enum", tag |-> g, text |-> t] :
            g \in {"Char", "Str", "Control", "Wait"}, t \in Texts}
    \cup {[target |-> "Duration", form |-> f, text |-> t] :
            f \in {"parse", "from_str"}, t \in DurationTexts}
    \cup {[target |-> "Duration", form |-> "to_string", value |-> d] :
            d \in DurationValues}

\* the visitor's method for the input; for a duration, the parse of the text
\* or of the text the value is displayed as
Visit(in) ==
    IF in.target = "Duration"
    THEN CASE in.form = "parse" -> DurationParse(in.text)
           [] in.form = "from_str" -> DurationFromStr(in.text)
           [] in.form = "to_string" -> DurationFromStr(DurationDisplay(in.value))
    ELSE IF in.target = "Command"
    THEN CASE in.form = "str" -> CommandVisitStr(in.text)
           [] in.form = "string" -> CommandVisitString(in.text)
           [] in.form = "seq" -> CommandVisitSeq(in.items)
           [] in.form = "enum" ->
                CommandVisitEnum(in.tag, IF in.tag = "MultiLine" THEN in.items
                                         ELSE in.text)
    ELSE CASE in.form = "str" -> KeyVisitStr(in.text)
           [] in.form = "char" -> KeyVisitChar(in.text[1])
           [] in.form = "enum" -> KeyVisitEnum(in.tag, in.text)

InitParse ==
    /\ script = <<>>
    /\ num = 1
    /\ state = "new"
    /\ wait_time = 0
    /\ events = <<>>
    /\ fragments = <<>>
    /\ result = <<>>
    /\ sent = <<>>
    /\ stream = <<>>
    /\ since_event = 0
    /\ since_start = 0
    /\ output = <<>>
    /\ prompt = PROMPT
    /\ read_call = <<>>
    /\ NoKeys /\ NoFile /\ Running
    /\ settings = <<>> /\ host = <<>>
    /\ header = <<>> /\ emitted = <<>>
    /\ input \in Inputs
    /\ parsed = <<>>

\* the instruction data is deserialized: the visitor returns
Deserialize ==
    /\ state = "new"
    /\ parsed' = Visit(input)
    /\ state' = "returned"
    /\ UNCHANGED <<script, num, wait_time, events, fragments, result, session,
                   prompt, read_call, key_num, until_next, key_times, out_file, overwrite,
                   quit_command, platform, exited, settings, host, header,
                   emitted, input>>

SpecParse == InitParse /\ [][Deserialize]_vars

(***************************************************************************)
(* Vocabulary of the properties.                                           *)
(***************************************************************************)
Done == state = "done"

Wait(d) == [kind |-> "Wait", duration |-> d]

Marker == [kind |-> "Marker", data |-> <<"x">>]

Hidden == [kind |-> "Command", command |-> [variant |-> "SingleLine", line |-> <<"h">>],
           hidden |-> TRUE, type_speed |-> <<>>]

Visible == [kind |-> "Command", command |-> [variant |-> "SingleLine", line |-> <<"h">>],
            hidden |-> FALSE, type_speed |-> <<>>]

\* the events instruction i yielded, with their instruction-local times
Items(i) == EventsItems(fragments[i])

\* the number of events yielded by the instructions before instruction i
RECURSIVE EventsBefore(_)
EventsBefore(i) == IF i <= 1 THEN 0 ELSE Len(Items(i - 1)) + EventsBefore(i - 1)

\* the place in the result of event k of instruction i (after the leading prompt)
Pos(i, k) == 1 + EventsBefore(i) + k

\* the time between event n of the result and the event before it
Delta(n) == result[n].time - (IF n = 1 THEN 0 ELSE result[n - 1].time)

\* the Wait durations of the script since the last instruction before i that
\* yielded an event
RECURSIVE DebtBefore(_)
DebtBefore(i) ==
    IF i <= 1 \/ Items(i - 1) # <<>> THEN 0
    ELSE (IF script[i - 1].kind = "Wait" THEN script[i - 1].duration ELSE 0)
            + DebtBefore(i - 1)

\* C1: consecutive Waits sum, and the sum is added exactly once, to the first
\* event of the next fragment that yields an event: that event follows its
\* predecessor by its own time plus the debt, every other event of a fragment
\* by its own time alone; for Wait(a), Wait(b), Marker the marker's time is a + b.
C1_WaitDebtAddedOnce ==
    Done =>
        /\ \A i \in 1..Len(script) : \A k \in 1..Len(Items(i)) :
              Delta(Pos(i, k)) = Items(i)[k].time + (IF k = 1 THEN DebtBefore(i) ELSE 0)
        /\ \A a, b \in WaitDurations :
              script = <<Wait(a), Wait(b), Marker>> => result[2] = EventMarker(a + b, <<"x">>)

C1_Witness ==
    /\ Done
    /\ script = <<Wait(300), Wait(700), Marker>>
    /\ result[2].time = 1000

\* the chain of line 66-68 for the finished run, before the scan
PreScan == Chained(DEFAULT_PROMPT, events, default_type_speed)

RECURSIVE SumTo(_, _)
SumTo(es, n) == IF n = 0 THEN 0 ELSE es[n].time + SumTo(es, n - 1)

\* C2 as stated: every returned event's time is its delta from the previous
\* event, none is a cumulative time.
C2_TimesAreDeltas ==
    Done => \A n \in 1..Len(result) :
                result[n].time = PreScan[n].time + (IF n = Len(result) THEN wait_time ELSE 0)

\* C2, amended: every returned event's time is cumulative, the sum of the
\* deltas of the events up to and including it (the leading prompt at zero),
\* and the last event's time also holds the wait time left over.
C2_TimesAreCumulative ==
    Done =>
        /\ Len(result) = Len(PreScan)
        /\ \A n \in 1..Len(result) :
              result[n].time = SumTo(PreScan, n) + (IF n = Len(result) THEN wait_time ELSE 0)

C2_Witness ==
    /\ Done
    /\ \E n \in 2..Len(result) : PreScan[n].time > 0 /\ result[n].time > PreScan[n].time + wait_time

\* C3: in the returned sequence the global time of every event is at least
\* that of the event before it, debt on a first event and on the final event
\* included.
C3_MonotonicTime ==
    Done => \A n \in 1..(Len(result) - 1) : result[n].time <= result[n + 1].time

C3_Witness ==
    /\ Done
    /\ wait_time > 0
    /\ \E i \in 2..Len(script) : Items(i) # <<>> /\ DebtBefore(i) > 0
    /\ \E i \in 1..Len(script) : script[i].kind = "Command" /\ Len(Items(i)) > 3

\* the data and type of every event of es, in order
Shapes(es) == [n \in 1..Len(es) |-> [event_type |-> es[n].event_type, data |-> es[n].data]]

RECURSIVE AllItems(_)
AllItems(i) == IF i = 0 THEN <<>> ELSE AllItems(i - 1) \o Items(i)

\* C4: the result is the prompt as an Output event at time zero, then the
\* fragments in script order, then one Output event with the line terminator,
\* which follows its predecessor by the default type_speed when no wait time
\* is left; the leading prompt is at zero also when the script starts with Wait.
C4_PromptFragmentsTerminator ==
    Done =>
        /\ Len(fragments) = Len(script)
        /\ Len(result) = Len(AllItems(Len(script))) + 2
        /\ result[1] = [time |-> 0, event_type |-> "o", data |-> DEFAULT_PROMPT]
        /\ Shapes(SubSeq(result, 2, Len(result) - 1)) = Shapes(AllItems(Len(script)))
        /\ Shapes(<<result[Len(result)]>>) = <<[event_type |-> "o", data |-> <<"\r", "\n">>]>>
        /\ wait_time = 0 => Delta(Len(result)) = default_type_speed

C4_Witness ==
    /\ Done
    /\ Len(script) = MaxScript
    /\ script[1].kind = "Wait"
    /\ script[2].kind = "Command" /\ ~script[2].hidden
    /\ wait_time = 0

\* C5: the wait time is the sum of the Waits since the last fragment that
\* yielded an event: a Wait or a hidden Command neither uses nor clears it,
\* and it is zero again once it was added to an event, so a fragment that
\* directly follows an event-yielding fragment starts at its own delta; for
\* Wait(a), hidden Command, Marker the marker follows the prompt by a.
C5_DebtResetOnlyWhenAdded ==
    /\ state \in {"run", "done"} => wait_time = DebtBefore(num)
    /\ Done =>
          \A i \in 2..Len(script) :
              Items(i) # <<>> /\ Items(i - 1) # <<>> =>
                  Delta(Pos(i, 1)) = Items(i)[1].time
    /\ Done =>
          \A a \in WaitDurations :
              script = <<Wait(a), Hidden, Marker>> =>
                  /\ Len(result) = 3
                  /\ result[2].event_type = "m"
                  /\ Delta(2) = a

C5_Witness ==
    /\ Done
    /\ script = <<Wait(700), Hidden, Marker>>
    /\ result[2].time = 700

\* C6: wait time left after the last instruction is added to the time of the
\* final event, the line terminator, and to no other event.
C6_TrailingDebtOnFinalEvent ==
    Done =>
        LET last == Len(result)
        IN  /\ wait_time = DebtBefore(Len(script) + 1)
            /\ Delta(last) = default_type_speed + DebtBefore(Len(script) + 1)
            /\ \A n \in 1..(last - 1) : result[n].time = SumTo(PreScan, n)

C6_Witness ==
    /\ Done
    /\ script = <<Marker, Wait(300), Hidden>>
    /\ result[3].time = 400

\* the events instruction i captured from the shell: those between the
\* typed events and the final prompt event
Captured(i) ==
    SubSeq(Items(i), Len(script[i].command.line) + 2, Len(Items(i)) - 1)

CapturedData(i) == Flatten([n \in 1..Len(Captured(i)) |-> Captured(i)[n].data])

IsHidden(i) == script[i].kind = "Command" /\ script[i].hidden

IsVisible(i) == script[i].kind = "Command" /\ ~script[i].hidden

\* the bytes the commands before instruction i are to send
RECURSIVE SentBefore(_)
SentBefore(i) ==
    IF i <= 1 THEN <<>>
    ELSE SentBefore(i - 1)
            \o (IF script[i - 1].kind = "Command"
                THEN script[i - 1].command.line \o <<"\n">> ELSE <<>>)

\* C7: a hidden Command yields no event, yet its line is sent and the shell's
\* output is read up to the prompt and dropped: between instructions nothing
\* is left unread, and what a later Command captures is its own output only.
C7_HiddenCommandSilent ==
    /\ state \in {"run", "done"} => stream = <<>> /\ sent = SentBefore(num)
    /\ Done =>
          \A i \in 1..Len(script) : IsHidden(i) =>
              /\ Items(i) = <<>>
              /\ \A j \in (i + 1)..Len(script) : IsVisible(j) =>
                    CapturedData(j) = <<"H", "\r\n">>

C7_Witness ==
    /\ Done
    /\ script = <<Hidden, Visible>>
    /\ sent = <<"h", "\n", "h", "\n">>
    /\ Len(result) = 6

\* C8: the fragment of a visible Command is the typed events of its line
\* (one per character, then the terminator, at the type speed), then the
\* captured output events in the order read, then one Output event with the
\* display prompt; for the script of one such Command the recording is the
\* prompt, the typed events, the output, the prompt, the terminator.
C8_VisibleCommandFragment ==
    Done =>
        /\ \A i \in 1..Len(script) : IsVisible(i) =>
              LET line == script[i].command.line
                  speed == IF script[i].type_speed = <<>> THEN default_type_speed
                           ELSE script[i].type_speed[1]
                  n == Len(Items(i))
              IN  /\ n >= Len(line) + 2
                  /\ \A k \in 1..Len(line) :
                        Items(i)[k] = [time |-> speed, event_type |-> "o", data |-> <<line[k]>>]
                  /\ Items(i)[Len(line) + 1] =
                        [time |-> speed, event_type |-> "o", data |-> <<"\r", "\n">>]
                  /\ \A k \in 1..Len(Captured(i)) :
                        /\ Captured(i)[k].event_type = "o"
                        /\ Captured(i)[k].data # <<>>
                        /\ Captured(i)[k].time >= 0
                  /\ CapturedData(i) = <<"H", "\r\n">>
                  /\ Items(i)[n].event_type = "o"
                  /\ Items(i)[n].data = DEFAULT_PROMPT
        /\ script = <<Visible>> =>
              /\ Len(result) \in {6, 7}
              /\ Flatten([n \in 1..Len(result) |-> result[n].data]) =
                    <<"$", " ", "h", "\r", "\n", "H", "\r\n", "$", " ", "\r", "\n">>
              /\ Len(result) = 6 =>
                    Shapes(result) =
                        << [event_type |-> "o", data |-> <<"$", " ">>],
                           [event_type |-> "o", data |-> <<"h">>],
                           [event_type |-> "o", data |-> <<"\r", "\n">>],
                           [event_type |-> "o", data |-> <<"H", "\r\n">>],
                           [event_type |-> "o", data |-> <<"$", " ">>],
                           [event_type |-> "o", data |-> <<"\r", "\n">>] >>

C8_Witness ==
    /\ Done
    /\ script = <<Visible>>
    /\ Len(result) = 6
    /\ result[4].data = <<"H", "\r\n">>

\* the lone call of read has returned: its data, its prompt, its result
Returned == state = "returned"

ReadData == read_call[1].data

ReadResult == read_call[1].returned

\* C9: for data D and a non-empty prompt P, read returns (None, false) when
\* D is empty, (an Output event with D, false) when P does not occur in D,
\* (None, true) when D is P, and (an Output event with X, true) when D is a
\* non-empty X followed by P.
C9_ReadCases ==
    Returned /\ prompt # <<>> =>
        LET D == ReadData
            R == ReadResult
            n == Len(D) - Len(prompt)
        IN  /\ D = <<>> => R.event = <<>> /\ ~R.prompt
            /\ D # <<>> /\ (\A i \in 0..Len(D) : ~OccursAt(D, prompt, i)) =>
                  /\ Len(R.event) = 1
                  /\ R.event[1].event_type = "o"
                  /\ R.event[1].data = D
                  /\ ~R.prompt
            /\ D = prompt => R.event = <<>> /\ R.prompt
            /\ n > 0 /\ SubSeq(D, n + 1, Len(D)) = prompt =>
                  /\ Len(R.event) = 1
                  /\ R.event[1].event_type = "o"
                  /\ R.event[1].data = SubSeq(D, 1, n)
                  /\ R.prompt

C9_Witness ==
    /\ Returned
    /\ prompt = <<"a", "b">>
    /\ ReadData = <<"b", "a", "a", "b">>
    /\ ReadResult.prompt
    /\ ReadResult.event[1].data = <<"b", "a">>

\* C10: the prompt is reported only when the data ends with it; data that
\* does not end with the prompt becomes one Output event as a whole; nothing
\* but a trailing prompt is removed from the data.
C10_SuffixMatchOnly ==
    Returned /\ prompt # <<>> =>
        LET D == ReadData
            R == ReadResult
            kept == IF R.event = <<>> THEN <<>> ELSE R.event[1].data
        IN  /\ R.prompt => EndsWith(D, prompt)
            /\ D # <<>> /\ ~EndsWith(D, prompt) =>
                  R.event # <<>> /\ R.event[1].data = D /\ ~R.prompt
            /\ D = kept \o (IF R.prompt THEN prompt ELSE <<>>)

\* the typed events of the lone Command of SpecEvents: its fragment without
\* the final prompt event
Typed == SubSeq(Items(1), 1, Len(Items(1)) - 1)

TheCommand == script[1].command

TheSpeed == IF script[1].type_speed = <<>> THEN default_type_speed ELSE script[1].type_speed[1]

\* the number of typed events of line i of the MultiLine
LineEvents(i) ==
    (IF i > 1 THEN 1 ELSE 0) + Len(TheCommand.lines[i])
        + (IF i < Len(TheCommand.lines) THEN Len(line_split) ELSE 0) + 1

\* the number of typed events of the lines before line i
RECURSIVE LineOffset(_)
LineOffset(i) == IF i <= 1 THEN 0 ELSE LineOffset(i - 1) + LineEvents(i - 1)

\* C18: the typed events of a MultiLine are, line by line: one event with the
\* whole secondary prompt unless the line is the first, one event per
\* character of the line, one event per character of the line split unless
\* the line is the last, one line terminator event; nothing else, and every
\* event at the type speed.
C18_MultiLineTypedEvents ==
    Returned /\ TheCommand.variant = "MultiLine" =>
        LET lines == TheCommand.lines
            n == Len(lines)
        IN  /\ Len(Typed) = LineOffset(n + 1)
            /\ \A e \in 1..Len(Typed) :
                  Typed[e].time = TheSpeed /\ Typed[e].event_type = "o"
            /\ \A i \in 1..n :
                  LET base == LineOffset(i)
                      p == IF i > 1 THEN 1 ELSE 0
                      l == Len(lines[i])
                  IN  /\ i > 1 => Typed[base + 1].data = DEFAULT_SECONDARY_PROMPT
                      /\ \A k \in 1..l : Typed[base + p + k].data = <<lines[i][k]>>
                      /\ i < n => \A k \in 1..Len(line_split) :
                                      Typed[base + p + l + k].data = <<line_split[k]>>
                      /\ Typed[base + LineEvents(i)].data = <<"\r", "\n">>

C18_Witness ==
    /\ Returned
    /\ TheCommand = [variant |-> "MultiLine", lines |-> << <<"a", "b">>, <<"b">>, <<>> >>]
    /\ Len(Typed) = 5 + 5 + 2
    /\ Typed[6].data = <<">", " ">>
    /\ Typed[10].data = <<"\r", "\n">>

\* C19: the typed events of a SingleLine of n characters are n Output events
\* of one character each, in the order of the text, then one line terminator
\* event, n + 1 in all, each at the instruction's own type speed when it has
\* one and at the default type speed otherwise.
C19_SingleLineTypedEvents ==
    Returned /\ TheCommand.variant = "SingleLine" =>
        LET line == TheCommand.line
            n == Len(line)
            speed == IF script[1].type_speed # <<>> THEN OwnTypeSpeed ELSE default_type_speed
        IN  /\ Len(Typed) = n + 1
            /\ \A k \in 1..n : Typed[k] = [time |-> speed, event_type |-> "o", data |-> <<line[k]>>]
            /\ Typed[n + 1] = [time |-> speed, event_type |-> "o", data |-> <<"\r", "\n">>]

C19_Witness ==
    /\ Returned
    /\ TheCommand = [variant |-> "SingleLine", line |-> <<"b", "a">>]
    /\ script[1].type_speed = <<OwnTypeSpeed>>
    /\ Len(Typed) = 3
    /\ Typed[1].time = OwnTypeSpeed

\* C20: a Control is shown as the typed events of its caret notation, the
\* caret and then the letter, and what is sent is the control byte alone:
\* no caret, no letter, no line ending.
C20_ControlCaretAndByte ==
    Returned /\ TheCommand.variant = "Control" =>
        LET c == TheCommand.control
        IN  /\ Len(Typed) = 3
            /\ Typed[1] = [time |-> TheSpeed, event_type |-> "o", data |-> <<"^">>]
            /\ Typed[2] = [time |-> TheSpeed, event_type |-> "o", data |-> <<c>>]
            /\ Typed[3] = [time |-> TheSpeed, event_type |-> "o", data |-> <<"\r", "\n">>]
            /\ Len(sent) = 1
            /\ sent[1] \notin {"^", c, "\n"}
            /\ c = "C" => sent = <<"ETX">>
            /\ c = "D" => sent = <<"EOT">>

C20_Witness ==
    /\ Returned
    /\ TheCommand = [variant |-> "Control", control |-> "C"]
    /\ sent = <<"ETX">>
    /\ Typed[2].data = <<"C">>

IsPrefix(a, b) == Len(a) <= Len(b) /\ SubSeq(b, 1, Len(a)) = a

Failed == state = "failed"

\* C12: when instruction num fails, by a send error, a read error or the
\* timeout, no event sequence is returned, what was sent ends within that
\* instruction's bytes, and no step follows: no later instruction runs and the
\* failed one is not run again; a sequence is returned only when every
\* instruction has completed.
C12_FailureEndsRun ==
    /\ [](/\ Failed =>
                /\ result = <<>>
                /\ num <= Len(script)
                /\ Len(fragments) = num - 1
                /\ IsPrefix(SentBefore(num), sent)
                /\ IsPrefix(sent, SentBefore(num + 1))
          /\ result # <<>> => Done
          /\ Done => num = Len(script) + 1 /\ Len(fragments) = Len(script))
    /\ [][~Failed]_vars

C12_Witness ==
    /\ Failed
    /\ Len(script) = 3
    /\ num = 2
    /\ events # <<>>
    /\ sent = <<"h", "\n">>
    /\ stream # <<>>

\* C11: read_until_prompt always comes to an end, by the prompt or by the
\* timeout, also when the shell prints nothing.
C11_ReadUntilPromptTerminates ==
    (state = "read") ~> (state # "read")

\* the characters of all the events of es
Shown(es) == UNION {{es[n].data[k] : k \in 1..Len(es[n].data)} : n \in 1..Len(es)}

C17_QuitEnds ==
    /\ [](state \in {"quitting", "quit"} =>
            \E before \in {SubSeq(sent, 1, n) : n \in 0..Len(sent)} :
                sent = before \o (IF quit_command = <<>> THEN <<>> ELSE <<"e", "\n">>))
    /\ (state = "quitting") ~> (state \in {"quit", "failed"})

IsInteractive(i) == script[i].kind = "Interactive"

\* this step's read of the stream returned data that holds the prompt
PromptObserved ==
    \E k \in 1..Len(stream) :
        /\ stream' = SubSeq(stream, k + 1, Len(stream))
        /\ Contains(SubSeq(stream, 1, k), prompt)

\* C14: the instructions run one after the other: a Command or Interactive
\* is left only by a read that holds the prompt (or by failing, after which
\* nothing is sent), and bytes are sent only for the instruction that is
\* running, with every earlier instruction completed.
C14_NoInterleaving ==
    /\ [](state # "done" => Len(fragments) = num - 1)
    /\ [][/\ num' # num /\ script[num].kind \in {"Command", "Interactive"} =>
                PromptObserved /\ num' = num + 1
          /\ sent' # sent =>
                /\ state \in {"run", "keys"}
                /\ num' = num /\ num <= Len(script)
                /\ state = "run" =>
                      sent' = sent \o CommandSendBytes(script[num].command)
                /\ state = "keys" =>
                      sent' = sent \o KeyBytes(script[num].keys[key_num + 1])]_vars

C14_Witness ==
    /\ Done
    /\ Len(script) = 2
    /\ IsInteractive(1) /\ IsVisible(2)
    /\ sent = <<"v", "\n", "q", "h", "\n">>

\* the bytes instruction i sends: for an Interactive its command and the
\* keys taken so far, in the order of the script
InstructionBytes(i) ==
    CASE script[i].kind = "Command" -> CommandSendBytes(script[i].command)
      [] script[i].kind = "Interactive" ->
            CommandSendBytes(script[i].command)
                \o Flatten([j \in 1..key_num |-> KeyBytes(script[i].keys[j])])
      [] OTHER -> <<>>

RECURSIVE SentThrough(_)
SentThrough(i) == IF i = 0 THEN <<>> ELSE SentThrough(i - 1) \o InstructionBytes(i)

\* C15: the keys of an Interactive are sent in the order of the script, each
\* at most once; a read that reports the prompt ends the instruction with
\* the events captured so far and without another key being sent;
\* read_until_prompt is entered only when every key was sent; the fragment
\* of a completed Interactive ends with the one prompt event.
C15_KeysInOrderUntilPrompt ==
    /\ [](/\ sent = SentThrough(IF state \in {"keys", "read", "failed"} THEN num ELSE num - 1)
          /\ state = "keys" => key_num <= Len(script[num].keys)
          /\ state = "read" /\ IsInteractive(num) => key_num = Len(script[num].keys)
          /\ \A i \in 1..Len(fragments) : IsInteractive(i) =>
                LET n == Len(Items(i))
                IN  /\ Items(i)[n].event_type = "o"
                    /\ Items(i)[n].data = DEFAULT_PROMPT
                    /\ \A k \in 1..(n - 1) : Items(i)[k].data # DEFAULT_PROMPT)
    /\ [][state = "keys" /\ read_call'[1].returned.prompt =>
                /\ sent' = sent
                /\ key_num' = key_num
                /\ state' = "run"
                /\ Len(fragments') = num
                /\ IsPrefix(output, SubSeq(EventsItems(fragments'[num]),
                                           Len(script[num].command.line) + 2,
                                           Len(EventsItems(fragments'[num])) - 1))]_vars

C15_Witness ==
    /\ Done
    /\ script = <<Interactive(<<KeyChar("q"), KeyChar("a")>>)>>
    /\ key_num = 1
    /\ sent = <<"v", "\n", "q">>
    /\ Len(Captured(1)) >= 2

\* C13: a run that completes writes the header and all the events to the
\* output file, and a run whose script fails leaves the output file as it
\* was: not created, not truncated, nothing written.
C13_WrittenOrUntouched ==
    /\ state = "written" => out_file = [exists |-> TRUE, header |-> TRUE, events |-> result]
    /\ Failed => out_file \in {Absent, OldFile}

\* the terminal-clear escape sequence: carriage return, cursor home, erase
\* the display, erase the scrollback
ClearSequence == <<"\r", "ESC[H", "ESC[2J", "ESC[3J">>

\* C21: a Marker instruction yields exactly one Marker event with its label
\* and zero local delta; a Clear instruction yields exactly two Output
\* events, the terminal-clear escape sequence and then the configured prompt
\* text, each with the default type_speed as its delta; the returned sequence
\* holds them with that type and data.
C21_MarkerAndClearEvents ==
    /\ \A i \in 1..Len(fragments) :
          /\ script[i].kind = "Marker" =>
                Items(i) = <<[time |-> 0, event_type |-> "m", data |-> script[i].data]>>
          /\ script[i].kind = "Clear" =>
                Items(i) = <<[time |-> default_type_speed, event_type |-> "o",
                              data |-> ClearSequence],
                             [time |-> default_type_speed, event_type |-> "o",
                              data |-> DEFAULT_PROMPT]>>
    /\ Done =>
          \A i \in 1..Len(script) :
              script[i].kind \in {"Marker", "Clear"} =>
                  \A k \in 1..Len(Items(i)) :
                      /\ result[Pos(i, k)].event_type = Items(i)[k].event_type
                      /\ result[Pos(i, k)].data = Items(i)[k].data

C21_Witness ==
    /\ Done
    /\ script = <<Marker, [kind |-> "Clear"]>>
    /\ Len(result) = 5
    /\ result[2] = EventMarker(0, <<"x">>)
    /\ result[4] = EventOutput(2 * default_type_speed, DEFAULT_PROMPT)

\* instruction num is about to run and does not use the session
PureNext ==
    /\ state = "run"
    /\ num <= Len(script)
    /\ script[num].kind \in {"Wait", "Marker", "Clear"}

\* C22: running a Wait, a Marker or a Clear sends nothing, reads nothing,
\* leaves the session's clock and its stream as they were, and does not fail:
\* the step that runs it yields its fragment and moves to the next instruction.
C22_PureInstructionsLeaveSession ==
    [][PureNext =>
          /\ sent' = sent
          /\ stream' = stream
          /\ since_event' = since_event
          /\ since_start' = since_start /\ output' = output
          /\ state' = "run"
          /\ num' = num + 1
          /\ Len(fragments') = Len(fragments) + 1]_vars

C22_Witness ==
    /\ state = "run"
    /\ num = 3
    /\ script[1] = Hidden
    /\ script[2] = [kind |-> "Clear"]
    /\ Len(fragments) = 2
    /\ since_event > 0
    /\ sent = <<"h", "\n">>

\* keys_to_events takes the next key of the running Interactive in this step
TakesKey == state = "keys" /\ key_num' = key_num + 1

TheKey == script[num].keys[key_num + 1]

\* C23: in an Interactive instruction the step that takes a Key::Wait(d)
\* sends no byte, gets no answer from the program and yields nothing; it
\* moves the time of the next key by d and type_speed, where every other key
\* is sent and moves it by type_speed alone.
C23_KeyWaitSendsNothing ==
    [][TakesKey =>
          /\ TheKey.key = "Wait" =>
                /\ sent' = sent
                /\ Len(stream') < Len(stream)
                /\ UNCHANGED <<num, state, events, fragments, wait_time>>
                /\ \E dt \in Ticks :
                      until_next' = (until_next - dt) + TheKey.duration
                                        + script[num].type_speed[1]
          /\ TheKey.key # "Wait" =>
                /\ sent' # sent
                /\ \E dt \in Ticks :
                      until_next' = (until_next - dt) + script[num].type_speed[1]]_vars

C23_Witness ==
    /\ script = <<InteractiveLong(<<LongWait, KeyChar("q")>>)>>
    /\ state = "keys"
    /\ key_num = 2
    /\ sent = <<"v", "v", "v", "\n", "q">>

\* the keys of a header, in the order the asciicast format lists them
FieldOrder ==
    <<"version", "width", "height", "timestamp", "duration", "idle_time_limit",
      "command", "title", "env">>

\* whether header h holds a value for the key
Present(h, key) ==
    CASE key \in {"version", "width", "height"} -> TRUE
      [] key = "timestamp" -> h.timestamp # <<>>
      [] key = "duration" -> h.duration # <<>>
      [] key = "idle_time_limit" -> h.idle_time_limit # <<>>
      [] key = "command" -> h.command # <<>>
      [] key = "title" -> h.title # <<>>
      [] key = "env" -> DOMAIN h.env # {}

EmittedKeys == [n \in 1..Len(emitted.fields) |-> emitted.fields[n].key]

\* C24: a serialized header holds its keys in the order version, width,
\* height, timestamp, duration, idle_time_limit, command, title, env, version
\* being 2; an optional key is there exactly when the header holds its value
\* (env: when the map is not empty) and no key is given null; serialization
\* fails only for a timestamp before the unix epoch.
C24_HeaderKeysInOrder ==
    state = "returned" =>
        /\ emitted.ok <=> ~(header.timestamp # <<>> /\ header.timestamp[1] < 0)
        /\ emitted.ok =>
              /\ EmittedKeys = SelectSeq(FieldOrder, LAMBDA key : Present(header, key))
              /\ emitted.fields[1] = Field("version", 2)
              /\ \A n \in 1..Len(emitted.fields) : emitted.fields[n].value # <<>>
              /\ header.title = <<>> => \A n \in 1..Len(emitted.fields) :
                                            emitted.fields[n].key # "title"

C24_Witness ==
    /\ state = "returned"
    /\ header.title = <<>>
    /\ header.command # <<>>
    /\ emitted.ok
    /\ EmittedKeys = <<"version", "width", "height", "timestamp", "command", "env">>

\* the size is about to be resolved
Resolving == state = "config"

\* C25: when width or height is missing and the terminal's size cannot be
\* had, the run fails at once: no shell has been spawned, nothing was sent,
\* and no step follows; when both are given they are kept and the terminal
\* is not asked; when one is given it is kept and the other is the
\* terminal's; the header holds the resolved width and height.
C25_TerminalSizeResolution ==
    /\ [][Resolving =>
             LET width == settings.width
                 height == settings.height
                 terminal == host.terminal
             IN  /\ (width = <<>> \/ height = <<>>) /\ terminal = <<>> =>
                       /\ state' = "failed"
                       /\ stream' = <<>> /\ sent' = <<>>
                       /\ header' = <<>>
                 /\ width # <<>> /\ height # <<>> =>
                       /\ state' = "resolved"
                       /\ settings'.width = width /\ settings'.height = height
                       /\ ~host'.asked
                 /\ (width = <<>> \/ height = <<>>) /\ terminal # <<>> =>
                       /\ state' = "resolved"
                       /\ settings'.width =
                             IF width # <<>> THEN width ELSE <<terminal[1].width>>
                       /\ settings'.height =
                             IF height # <<>> THEN height ELSE <<terminal[1].height>>]_vars
    /\ [][state # "failed"]_vars
    /\ [][state # "config" => settings' = settings /\ host' = host]_vars
    /\ [](state = "cast" =>
             /\ header.width = settings.width[1]
             /\ header.height = settings.height[1])

C25_Witness ==
    /\ state = "failed"
    /\ settings.width = <<80>>
    /\ settings.height = <<>>
    /\ host.terminal = <<>>
    /\ host.asked
    /\ stream = <<>>

\* the input is a control-character specification, and its text
IsControlSpec ==
    \/ input.form \in {"str", "string"} /\ IsPrefixOf(<<"^">>, input.text)
    \/ input.form = "enum" /\ input.tag = "Control"

ControlSpec == IF input.form = "enum" THEN input.text ELSE Tail(input.text)

\* the characters of the model that have a control code
SupportedControlChars == {"c", "m", "s", "^"}

\* C26: a control-character specification, in the '^x' string form or the
\* tagged Control form, of a Command or of a Key, is accepted exactly when
\* it is one character that has a control code, and then gives the Control
\* of that code; otherwise deserialization returns an error, and no session
\* has been written to or read.
C26_InvalidControlRejected ==
    state = "returned" /\ IsControlSpec =>
        /\ parsed.ok <=>
              Len(ControlSpec) = 1 /\ ControlSpec[1] \in SupportedControlChars
        /\ parsed.ok =>
              parsed.value = IF input.target = "Command"
                             THEN Control(ControlOfChar(ControlSpec[1])[1])
                             ELSE KeyControl(ControlOfChar(ControlSpec[1])[1])
        /\ ~parsed.ok =>
              /\ parsed.error \in {"single control char", "valid control char",
                                    "expected a character"}
              /\ sent = <<>> /\ stream = <<>>

C26_Witness ==
    /\ state = "returned"
    /\ input = [target |-> "Key", form |-> "str", text |-> <<"^", "c", "m">>]
    /\ parsed = Err("single control char")

NoLineFeed(text) == \A n \in 1..Len(text) : text[n] # "\n"

\* the text without the line feed that ends it
Chomp(text) ==
    IF text # <<>> /\ text[Len(text)] = "\n" THEN SubSeq(text, 1, Len(text) - 1) ELSE text

\* C30: no SingleLine that deserialization gives holds a line feed: a plain
\* string with a line feed becomes the MultiLine of its lines, a string that
\* starts with '^' becomes a Control or is rejected, and the tagged
\* SingleLine with a line feed is rejected as not a single line string.
C30_SingleLineHasNoNewline ==
    state = "returned" /\ input.target = "Command" =>
        /\ parsed.ok /\ parsed.value.variant = "SingleLine" => NoLineFeed(parsed.value.line)
        /\ input.form \in {"str", "string"} =>
              IF IsPrefixOf(<<"^">>, input.text)
              THEN parsed.ok => parsed.value.variant = "Control"
              ELSE IF NoLineFeed(input.text)
              THEN parsed = Ok(SingleLine(input.text))
              ELSE /\ parsed.ok
                   /\ parsed.value.variant = "MultiLine"
                   /\ \A n \in 1..Len(parsed.value.lines) : NoLineFeed(parsed.value.lines[n])
                   /\ Join(parsed.value.lines, <<"\n">>) = Chomp(input.text)
        /\ input.form = "enum" /\ input.tag = "SingleLine" =>
              IF NoLineFeed(input.text)
              THEN parsed = Ok(SingleLine(input.text))
              ELSE parsed = Err("single line string")

C30_Witness ==
    /\ state = "returned"
    /\ input = [target |-> "Command", form |-> "enum", tag |-> "SingleLine",
                text |-> <<"c", "\n", "m">>]
    /\ parsed = Err("single line string")

\* the file has been built
Cast == state = "cast"

\* the names given in Settings.environment, in environment_capture
ExplicitNames == {settings.environment[i][1] : i \in 1..Len(settings.environment)}

CapturedNames ==
    {settings.environment_capture[i] : i \in 1..Len(settings.environment_capture)}

\* the value of the last entry of Settings.environment for the name
LastExplicit(name) ==
    LET last == CHOOSE i \in 1..Len(settings.environment) :
                    /\ settings.environment[i][1] = name
                    /\ \A j \in (i + 1)..Len(settings.environment) :
                          settings.environment[j][1] # name
    IN  settings.environment[last][2]

\* C27, as claimed: in the header's env map every explicitly given variable
\* holds its last explicit value, and every captured variable without an
\* explicit value holds the value of the process's environment, the empty
\* string when it is unset.
C27_EnvAsClaimed ==
    Cast =>
        /\ \A name \in ExplicitNames : header.env[name] = LastExplicit(name)
        /\ \A name \in CapturedNames \ ExplicitNames :
              header.env[name] = IF name \in DOMAIN host.env THEN host.env[name] ELSE ""

\* C27, amended: the same for every variable but SHELL, a captured variable
\* holding the empty string also when its value in the process's environment
\* is not valid unicode; the map holds the explicit names, the captured
\* names and SHELL, and nothing else.
C27_EnvPrecedence ==
    Cast =>
        /\ DOMAIN header.env = ExplicitNames \cup CapturedNames \cup {"SHELL"}
        /\ \A name \in ExplicitNames \ {"SHELL"} : header.env[name] = LastExplicit(name)
        /\ \A name \in CapturedNames \ (ExplicitNames \cup {"SHELL"}) :
              header.env[name] =
                  IF name \in DOMAIN host.env /\ host.env[name] # NotUnicode
                  THEN host.env[name] ELSE ""

C27_Witness ==
    /\ Cast
    /\ settings.environment = << <<"A", "1">>, <<"A", "2">> >>
    /\ settings.environment_capture = <<"A", "TERM">>
    /\ "A" \in DOMAIN host.env
    /\ header.env["A"] = "2"
    /\ header.env["TERM"] = "xterm"

\* the name of the shell the settings select
ShellName ==
    CASE settings.shell = [variant |-> "Bash"] -> "bash"
      [] settings.shell = [variant |-> "Python"] -> "python"
      [] OTHER -> settings.shell.program

\* C28: the header's env map of a recording holds SHELL, and its value is
\* the name of the resolved shell, also when the settings give SHELL a value
\* or list it among the variables to capture.
C28_ShellInEnv ==
    Cast =>
        /\ "SHELL" \in DOMAIN header.env
        /\ header.env["SHELL"] = ShellName

C28_Witness ==
    /\ Cast
    /\ settings.shell = [variant |-> "Custom", program |-> "fish"]
    /\ settings.environment = << <<"SHELL", "zsh">> >>
    /\ settings.environment_capture = <<"SHELL">>
    /\ "SHELL" \in DOMAIN host.env
    /\ header.env["SHELL"] = "fish"

\* the output file holds the older recording and is not to be overwritten
Kept == ~overwrite /\ out_file = OldFile

\* C29: without --overwrite an output file that is there keeps its content:
\* opening it fails, after which nothing happens, and the script is not run,
\* nothing being sent to or read from a shell; with --overwrite a run that
\* completes leaves the new recording in the place of the old one.
C29_ExistingFileKept ==
    /\ [](Kept =>
             /\ state \in {"main", "not_opened"}
             /\ num = 1 /\ fragments = <<>>
             /\ sent = <<>> /\ stream = <<>>)
    /\ [][Kept => out_file' = OldFile /\ state' = "not_opened"]_vars
    /\ [][state # "not_opened"]_vars
    /\ [](overwrite /\ state = "written" =>
             out_file = [exists |-> TRUE, header |-> TRUE, events |-> result])

C29_Witness ==
    /\ state = "not_opened"
    /\ ~overwrite
    /\ out_file = OldFile
    /\ sent = <<>>

(***************************************************************************)
(* Durations.                                                              *)
(***************************************************************************)
IsUnsigned(v) ==
    LET digits == IF v # <<>> /\ v[1] = "+" THEN Tail(v) ELSE v
    IN  /\ digits # <<>>
        /\ \A n \in 1..Len(digits) : digits[n] \in {"0", "1", "2", "3", "4", "5", "6", "7", "8", "9"}
        /\ ~ExceedsU64(digits)

NumberOf(v) == DigitsValue(IF v[1] = "+" THEN Tail(v) ELSE v)

Units ==
    {[suffix |-> <<"s">>, variant |-> "Seconds", micros |-> 1000000],
     [suffix |-> <<"m", "s">>, variant |-> "Milliseconds", micros |-> 1000],
     [suffix |-> <<"u", "s">>, variant |-> "Microseconds", micros |-> 1]}

\* the ways to read the text as an unsigned integer followed by a unit
Readings(v) ==
    {[n |-> NumberOf(SubSeq(v, 1, Len(v) - Len(u.suffix))), unit |-> u] :
        u \in {x \in Units : /\ EndsWith(v, x.suffix)
                             /\ IsUnsigned(SubSeq(v, 1, Len(v) - Len(x.suffix)))}}

ParsingDuration ==
    /\ state = "returned"
    /\ input.target = "Duration"
    /\ input.form \in {"parse", "from_str"}

\* the text the units and the number are looked for in: duration::parse trims
\* the text first, from_str of the settings does not
Looked == IF input.form = "parse" THEN Trim(input.text) ELSE input.text

\* C31: a duration text is accepted exactly when it is an unsigned integer N
\* followed by "s", "ms" or "us", and the value is then N seconds, N
\* milliseconds or N microseconds ("1ms" is one millisecond, never a number
\* "1m" of seconds); a text with whitespace inside, a text with another unit
\* or none, and a text whose number part is not an unsigned integer are
\* rejected, each with its own error.
C31_DurationParsing ==
    ParsingDuration =>
        LET v == Looked
            whitespace == \E n \in 1..Len(v) : IsWhitespace(v[n])
            unit == \E u \in Units : EndsWith(v, u.suffix)
        IN  /\ Cardinality(Readings(v)) <= 1
            /\ parsed.ok <=> Readings(v) # {}
            /\ \A r \in Readings(v) :
                  parsed.ok /\ parsed.value =
                      IF input.form = "parse" THEN r.n * r.unit.micros
                      ELSE [variant |-> r.unit.variant, value |-> r.n]
            /\ whitespace =>
                  ~parsed.ok /\ parsed.error = "the duration cannot contain whitespace"
            /\ ~whitespace /\ ~unit =>
                  /\ ~parsed.ok
                  /\ parsed.error = "the duration has an unknown unit, must be: s, ms, or us"
            /\ ~whitespace /\ unit /\ Readings(v) = {} =>
                  /\ ~parsed.ok
                  /\ parsed.error = "the duration could not be parsed as an integer"

C31_Witness ==
    /\ ParsingDuration
    /\ input.form = "parse"
    /\ input.text = <<"1", "m", "s">>
    /\ parsed = Ok(1000)

(***************************************************************************)
(* The session's clock.                                                    *)
(***************************************************************************)
\* C32: the step that sends the command of a Command or Interactive
\* instruction leaves the session's clock at zero, whatever time had passed
\* since the last event of the earlier instructions, and the first output
\* event then read for the instruction carries the time since that send.
C32_ClockResetBeforeSend ==
    [][/\ state = "run" /\ sent' # sent => since_event' = 0
       /\ /\ state \in {"read", "keys"}
          /\ state' = state /\ num' = num
          /\ output = <<>> /\ output' # <<>>
          => output'[1].time = InstructionClock']_vars

C32_Witness ==
    /\ state = "keys"
    /\ num = 2
    /\ script[1].kind = "Command" /\ script[1].hidden
    /\ Len(output) = 1
    /\ output[1].time = KeySpeed
    /\ InstructionClock = KeySpeed

RECURSIVE TimeOf(_)
TimeOf(evs) == IF evs = <<>> THEN 0 ELSE Head(evs).time + TimeOf(Tail(evs))

\* the running instruction's clock is known: keys_to_events, or the
\* read_until_prompt of a Command
Measured == state = "keys" \/ (state = "read" /\ script[num].kind = "Command")

\* C33: every event new_event has made since the reset carries the time
\* since the event or the reset before it, and last_event is then the time
\* of the event: no delta is negative, and the deltas of the events read
\* since the command was sent, with the time since the last of them, make
\* up the time since the reset.
C33_DeltasSumToElapsed ==
    Measured =>
        /\ since_event >= 0
        /\ \A i \in 1..Len(output) : output[i].time >= 0
        /\ TimeOf(output) + since_event = InstructionClock

C33_Witness ==
    /\ Measured
    /\ Len(output) = 2
    /\ output[1].time > 0 /\ output[2].time > 0
    /\ since_event = 0
    /\ InstructionClock = output[1].time + output[2].time

(***************************************************************************)
(* The prompt and the reads.                                               *)
(***************************************************************************)
\* read_until_prompt runs for a Command whose output, the prompt at its end,
\* is there to be read
PromptPending ==
    /\ state = "read"
    /\ script[num].kind = "Command"
    /\ stream # <<>>
    /\ EndsWith(stream, prompt)

\* C34: when the output of a command ends with the prompt, read_until_prompt
\* reports the prompt and returns, however the reads split the output, also
\* between two characters of the prompt.  Stated in its weakest form: the
\* call comes to an end at all, be it by the timeout.
C34_PromptReportedWhateverTheSplit == PromptPending ~> (state # "read")

(***************************************************************************)
(* The total time of the recording.                                        *)
(***************************************************************************)
\* the durations of the Wait instructions of the first n instructions
RECURSIVE WaitsOf(_)
WaitsOf(n) ==
    IF n = 0 THEN 0
    ELSE WaitsOf(n - 1) + (IF script[n].kind = "Wait" THEN script[n].duration ELSE 0)

\* C35: the time of the final event of the result is the sum of the local
\* times of all the events the instructions yielded, the default type_speed
\* of the trailing terminator and the durations of all the Wait instructions
\* of the script, wherever they stand.
C35_TotalTimeConserved ==
    Done =>
        result[Len(result)].time =
            TimeOf(AllItems(Len(script))) + default_type_speed + WaitsOf(Len(script))

C35_Witness ==
    /\ Done
    /\ script = <<Wait(300), Visible, Wait(700)>>
    /\ TimeOf(Items(2)) > default_type_speed
    /\ result[Len(result)].time = TimeOf(Items(2)) + default_type_speed + 1000

(***************************************************************************)
(* The pace of the keys.                                                   *)
(***************************************************************************)
\* an Interactive instruction runs: keys_to_events or its read_until_prompt
KeysRunning == state = "keys" \/ (state = "read" /\ script[num].kind = "Interactive")

\* the time key n has to follow the key before it, or the command, by
Pace(n) ==
    script[num].type_speed[1]
        + (IF n > 1 /\ script[num].keys[n - 1].key = "Wait"
           THEN script[num].keys[n - 1].duration ELSE 0)

\* C36: the first key is sent no earlier than type_speed after the command,
\* every later key no earlier than type_speed after the key before it was
\* sent, and the duration more when that key is a Wait, however long the
\* reads in between took.
C36_KeysPaced ==
    KeysRunning =>
        \A n \in 1..Len(key_times) :
            key_times[n] - (IF n = 1 THEN 0 ELSE key_times[n - 1]) >= Pace(n)

\* C37: an Interactive instruction comes to an end: keys_to_events sees the
\* prompt, or sends every key and ends with read_until_prompt, which returns
\* or fails; it does not stay in its loop for ever while the shell is silent.
C37_InteractiveTerminates == KeysRunning ~> ~KeysRunning

(***************************************************************************)
(* The characters of the keys.                                             *)
(***************************************************************************)
\* the UTF-8 encoding of a character: U+20AC is E2 82 AC, an ASCII character
\* is its own byte
Utf8(char) == IF char = "EURO" THEN <<"xE2", "x82", "xAC">> ELSE <<char>>

\* the characters of a Char or String key
CharsOf(key) == IF key.key = "Char" THEN <<key.char>> ELSE key.str

\* C38: when a Char or String key is sent, the bytes written to the session
\* are the encoding of its characters, of a character beyond ASCII too, and
\* not the low byte of each code point.
C38_KeyCharsDelivered ==
    [][TakesKey /\ TheKey.key \in {"Char", "String"} =>
          sent' = sent \o Flatten([i \in 1..Len(CharsOf(TheKey)) |->
                                      Utf8(CharsOf(TheKey)[i])])]_vars

(***************************************************************************)
(* What is sent for a MultiLine.                                           *)
(***************************************************************************)
\* the lines one after the other, one space between two of them
RECURSIVE Spaced(_)
Spaced(lines) ==
    IF lines = <<>> THEN <<>>
    ELSE IF Len(lines) = 1 THEN lines[1]
    ELSE lines[1] \o <<" ">> \o Spaced(Tail(lines))

\* C39: all that Command::send writes for a MultiLine is its lines with one
\* space between two of them and one line terminator at the end: one line,
\* with no character of the line split or of the secondary prompt that the
\* typed events show between the lines.
C39_MultiLineSentAsOneLine ==
    Returned /\ TheCommand.variant = "MultiLine" =>
        /\ sent = Spaced(TheCommand.lines) \o <<"\n">>
        /\ \A k \in 1..(Len(sent) - 1) : sent[k] # "\n"
        /\ \A k \in 1..Len(sent) : sent[k] \notin {"\\", ">"}

C39_Witness ==
    /\ Returned
    /\ TheCommand = [variant |-> "MultiLine", lines |-> << <<"a", "b">>, <<"b">>, <<"a">> >>]
    /\ sent = <<"a", "b", " ", "b", " ", "a", "\n">>
    /\ \E e \in 1..Len(Typed) : Typed[e].data = DEFAULT_SECONDARY_PROMPT
    /\ \E e \in 1..Len(Typed) : Typed[e].data = <<"\\">>

(***************************************************************************)
(* The settings' durations as text.                                        *)
(***************************************************************************)
\* a duration of the settings was displayed and the text parsed
Displayed == state = "returned" /\ input.target = "Duration" /\ input.form = "to_string"

\* C40: the text a settings Duration is displayed as parses back to the same
\* Duration, of the same variant and number; so do the defaults of
\* type_speed, "100ms", and of timeout, "30s".
C40_DisplayParseRoundTrip ==
    Displayed =>
        /\ parsed = Ok(input.value)
        /\ input.value = [variant |-> "Milliseconds", value |-> 100] =>
              DurationDisplay(input.value) = <<"1", "0", "0", "m", "s">>
        /\ input.value = [variant |-> "Seconds", value |-> 30] =>
              DurationDisplay(input.value) = <<"3", "0", "s">>

C40_Witness ==
    /\ Displayed
    /\ input.value = [variant |-> "Milliseconds", value |-> 100]
    /\ parsed = Ok([variant |-> "Milliseconds", value |-> 100])

====
